---- MODULE Spec2Model ----
(***************************************************************************)
(* Model of the mailbox session controller and the folder classifier of   *)
(* src/src/components/EmailManagement.tsx.                                 *)
(*                                                                         *)
(* The component is single-threaded: an event handler, or the continuation *)
(* of an `await`, runs to its next `await` without interleaving.  Each     *)
(* action below is one such run.  Strings are sequences of characters, so  *)
(* that trim(), toLowerCase() and includes() are computed, not assumed.    *)
(***************************************************************************)
EXTENDS Integers, Sequences, FiniteSets, TLC

\* ------------------------------------------------------------------ bounds

\* Number of handleOpenMailbox invocations in one behaviour.
MaxOpens == 2
\* Length of the record list that get_mail_records returns.
MaxRecords == 2
\* Number of pieces a raw folder label is assembled from (classifier inputs).
MaxPieces == 3
\* Largest page count and page number handed to buildPageItems.
MaxTotalPages == 12
\* Number of deletes, batch deletes and imports started in one behaviour.
MaxDirOps == 1
\* Length of the account list handed to the search filter.
MaxFiltered == 3
\* Number of toasts one scheduler shows in one behaviour.
MaxShows == 3
\* Number of lines of the text handed to parseBatch.
MaxLines == 2
\* Number of dot-separated components of a version handed to compareVersions.
MaxComponents == 2
\* Number of times the update effect of the Dashboard runs.
MaxEffectRuns == 2
\* The ids of the accounts that are paged are 1..MaxListed.
MaxListed == 5
\* The page sizes that are paged are 1..MaxPageRows.
MaxPageRows == 3
\* Number of cached records of the account whose two folder views are compared.
MaxCached == 2

\* ----------------------------------------------------------------- strings

\* An optional string (`folder?: string`): absent (undefined or null, which
\* `!folder` does not tell apart), or a sequence of characters.
Undefined == [defined |-> FALSE, text |-> <<>>]
Str(chars) == [defined |-> TRUE, text |-> chars]

\* The two characters of the localized junk term, named by their code points.
CJK_LA == "U+5783"
CJK_JI == "U+573E"

UpperCase == <<"A", "B", "I", "J", "K", "M", "N", "O", "P", "S", "U", "X">>
LowerCase == <<"a", "b", "i", "j", "k", "m", "n", "o", "p", "s", "u", "x">>

\* String.prototype.toLowerCase, one character.
LowerChar(c) ==
    IF \E i \in DOMAIN UpperCase : UpperCase[i] = c
    THEN LowerCase[CHOOSE i \in DOMAIN UpperCase : UpperCase[i] = c]
    ELSE c

toLowerCase(s) == [i \in 1..Len(s) |-> LowerChar(s[i])]

IsWhiteSpace(c) == c \in {" ", "\t"}

RECURSIVE trimStart(_)
trimStart(s) ==
    IF s # <<>> /\ IsWhiteSpace(Head(s)) THEN trimStart(Tail(s)) ELSE s

RECURSIVE trimEnd(_)
trimEnd(s) ==
    IF s # <<>> /\ IsWhiteSpace(s[Len(s)])
    THEN trimEnd(SubSeq(s, 1, Len(s) - 1))
    ELSE s

\* String.prototype.trim
trim(s) == trimEnd(trimStart(s))

\* String.prototype.includes
includes(s, sub) ==
    \E i \in 0..(Len(s) - Len(sub)) : SubSeq(s, i + 1, i + Len(sub)) = sub

JunkWord == <<"j", "u", "n", "k">>
SpamWord == <<"s", "p", "a", "m">>
LocalizedJunkWord == <<CJK_LA, CJK_JI>>

\* ------------------------------------------------------- folder classifier

MailFolder == {"INBOX", "JUNK"}

\* The classifier without lower-casing (a case-sensitive match).
normalizeFolder_CaseSensitive(folder) ==
    IF ~folder.defined \/ folder.text = <<>>
    THEN "INBOX"
    ELSE LET normalized == trim(folder.text)
         IN  IF \/ includes(normalized, JunkWord)
                \/ includes(normalized, SpamWord)
                \/ includes(normalized, LocalizedJunkWord)
             THEN "JUNK"
             ELSE "INBOX"

normalizeFolder(folder) ==
    IF ~folder.defined \/ folder.text = <<>>
    THEN "INBOX"
    ELSE LET normalized == toLowerCase(trim(folder.text))
         IN  IF \/ includes(normalized, JunkWord)
                \/ includes(normalized, SpamWord)
                \/ includes(normalized, LocalizedJunkWord)
             THEN "JUNK"
             ELSE "INBOX"

\* The filter with a record that has no folder label passed to neither view
\* (record.folder && normalizeFolder(record.folder) === folder).
filterMailRecordsByFolder_LabelledOnly(records, folder) ==
    SelectSeq(records, LAMBDA record :
        record.folder.defined /\ normalizeFolder(record.folder) = folder)

\* Array.prototype.filter with a mismatching predicate (=== written as !==).
filterMailRecordsByFolder_Inverted(records, folder) ==
    SelectSeq(records, LAMBDA record : normalizeFolder(record.folder) # folder)

filterMailRecordsByFolder(records, folder) ==
    SelectSeq(records, LAMBDA record : normalizeFolder(record.folder) = folder)

\* ------------------------------------------------------------------- data

AccountIds == {1, 2}
NoAccount == 0

NoMail == [id |-> 0, email_id |-> 0, folder |-> Undefined]

\* Raw folder labels the backend stores with a record.
StoreLabels ==
    { Str(<<"I", "n", "b", "o", "x">>),
      Str(<<"J", "u", "n", "k">>) }

RECURSIVE SeqsUpTo(_, _)
SeqsUpTo(S, n) ==
    IF n = 0 THEN {<<>>}
    ELSE LET shorter == SeqsUpTo(S, n - 1)
         IN  shorter \cup {Append(s, x) : s \in {q \in shorter : Len(q) = n - 1}, x \in S}

\* What get_mail_records may return for emailId: the cached records of that
\* account, each with its own id.
StoreLabelLists == SeqsUpTo(StoreLabels, MaxRecords)

MailRecordsOf(emailId) ==
    { [i \in 1..Len(labels) |->
          [id |-> emailId * 10 + i, email_id |-> emailId, folder |-> labels[i]]]
      : labels \in StoreLabelLists }

\* The pieces raw folder labels are assembled from: the junk words in lower and
\* mixed case, whole and split in two, white space, and an inbox label.
LabelPieces ==
    { <<"j", "u", "n", "k">>,
      <<"J", "U", "N">>,
      <<"K">>,
      <<"S", "p", "a", "m">>,
      <<"s", "p">>,
      <<"a", "m">>,
      <<" ">>,
      <<"I", "n", "b", "o", "x">>,
      <<CJK_LA>>,
      <<CJK_JI>> }

RECURSIVE Flatten(_)
Flatten(pieces) ==
    IF pieces = <<>> THEN <<>> ELSE Head(pieces) \o Flatten(Tail(pieces))

\* The inputs of normalizeFolder: undefined/null, the empty string and every
\* concatenation of at most MaxPieces pieces.
RawLabels ==
    {Undefined} \cup {Str(Flatten(ps)) : ps \in SeqsUpTo(LabelPieces, MaxPieces)}

CheckCall(t, account, folder) ==
    [cmd |-> "check_outlook_email", emailId |-> account, folder |-> folder, task |-> t]

LoadCall(t, account) ==
    [cmd |-> "get_mail_records", emailId |-> account, folder |-> "-", task |-> t]

\* ------------------------------------------------------------------ state

VARIABLES
    mailViewerOpen,      \* useState(false)
    mailViewerEmail,     \* useState<EmailAccount | null>(null), by account id
    mailViewerFolder,    \* useState<MailFolder>('INBOX')
    mailViewerRecords,   \* useState<MailRecord[]>([])
    mailViewerLoading,   \* useState(false)
    selectedMail,        \* useState<MailRecord | null>(null)
    isDetailOpen,        \* useState(false)
    tasks,               \* the suspended invocations of handleOpenMailbox, by number
    nOpens,              \* how many times handleOpenMailbox has been invoked
    inFlight,            \* the external calls issued and not yet settled
    unhandled,           \* rejections that left a handler uncaught
    lastOp,              \* the handler or continuation that ran last
    clsInput,            \* the raw label handed to normalizeFolder
    clsOutput,           \* what normalizeFolder returned for it
    winTotal,            \* buildPageItems: the argument `total`
    winCurrent,          \* buildPageItems: the argument `current`
    winItems,            \* buildPageItems: the returned array
    emails,              \* useState<EmailAccount[]>([])
    loading,             \* useState(false)
    selectedIds,         \* useState<number[]>([])
    currentPage,         \* useState(1)
    pageSize,            \* useState(10)
    searchQuery,         \* useState('')
    filteredEmails,      \* const filteredEmails of the last render
    importResult,        \* useState<string | null>(null), by kind of message
    store,               \* the account ids held by the external store
    nextId,              \* the id the store gives to the next imported account
    dirTasks,            \* the suspended async handlers of the directory
    nDirTasks,           \* how many directory tasks have been started
    nDirOps,             \* how many deletes and imports the user has started
    dirOp,               \* the directory handler or continuation that ran last
    fltEmails,           \* the filter expression: the account list `emails`
    fltQuery,            \* the filter expression: `searchQuery`
    fltResult,           \* the filter expression: its value
    version,             \* About: useState<string>('加载中...')
    checking,            \* About: useState(false)
    checkPc,             \* About: where handleCheckUpdate is suspended
    toastMessage,        \* About: useState<string | null>(null)
    toastId,             \* About: useState(0)
    toastTimerRef,       \* About: useRef<number | null>(null)
    updateInfo,          \* About: useState<UpdateInfo | null>(null)
    timers,              \* About: the timers set by window.setTimeout, pending
    aboutOp,             \* About: the handler, continuation or timer that ran last
    mailToastMessage,    \* EmailManagement: useState<string | null>(null)
    mailToastId,         \* EmailManagement: useState(0)
    mailToastTimerRef,   \* EmailManagement: useRef<number | null>(null)
    mailTimers,          \* EmailManagement: the timers set and pending
    copies,              \* EmailManagement: the suspended handleCopyValue calls
    nCopies,             \* EmailManagement: how many copies have been started
    alerts,              \* EmailManagement: how many times handleCopyValue called alert()
    mailOp,              \* EmailManagement: the toast step that ran last
    prsLines,            \* parseBatch: the lines the text was written from, as fields
    prsWritten,          \* parseBatch: the separator the text was written with
    prsSeparator,        \* parseBatch: the argument `separator`
    prsOutcome,          \* parseBatch: the returned outcome
    separator,           \* useState('----')
    impCalls,            \* the arguments of each import_emails call and the separator set when it was made, by task
    impDone,             \* what import_emails answered, by task
    cmpCurrent,          \* compareVersions: the version `current` is written from
    cmpLatest,           \* compareVersions: the version `latest` is written from
    cmpEnv,              \* checkForUpdate: how its awaited calls settle
    cmpResult,           \* what compareVersions and checkForUpdate returned
    dashUpdateInfo,      \* Dashboard: useState<UpdateInfo | null>(null)
    showUpdateToast,     \* Dashboard: useState(false)
    hasCheckedUpdate,    \* Dashboard: useRef(false)
    updPending,          \* Dashboard: checkForUpdate() has been called and has not settled
    nUpdChecks,          \* Dashboard: how many times checkForUpdate() has been called
    nEffects,            \* Dashboard: how many times the update effect has run
    updReport,           \* Dashboard: what checkForUpdate() settled with, and from what
    dashOp,              \* Dashboard: the effect, callback or handler that ran last
    pgnFiltered,         \* paging: the filtered list of a render
    pgnPageSize,         \* paging: the page size of that render
    pgnPages,            \* paging: the rows shown on each page 1..totalPages
    cachedRecords,       \* folder views: the cached records of one account
    folderViews          \* folder views: the INBOX and the JUNK view of them

viewVars ==
    <<mailViewerOpen, mailViewerEmail, mailViewerFolder, mailViewerRecords,
      mailViewerLoading, selectedMail, isDetailOpen>>

sessionVars == <<viewVars, tasks, nOpens, inFlight, unhandled, lastOp>>

classifierVars == <<clsInput, clsOutput>>

windowVars == <<winTotal, winCurrent, winItems>>

pageVars == <<currentPage, pageSize, searchQuery, filteredEmails>>

directoryVars ==
    <<emails, loading, selectedIds, pageVars, importResult, store, nextId,
      dirTasks, nDirTasks, nDirOps, dirOp>>

filterVars == <<fltEmails, fltQuery, fltResult>>

aboutVars ==
    <<version, checking, checkPc, toastMessage, toastId, toastTimerRef,
      updateInfo, timers, aboutOp>>

mailToastVars ==
    <<mailToastMessage, mailToastId, mailToastTimerRef, mailTimers, copies,
      nCopies, alerts, mailOp>>

toastVars == <<aboutVars, mailToastVars>>

parserVars == <<prsLines, prsWritten, prsSeparator, prsOutcome>>

importVars == <<separator, impCalls, impDone>>

versionVars == <<cmpCurrent, cmpLatest, cmpEnv, cmpResult>>

dashboardVars == <<dashUpdateInfo, showUpdateToast, hasCheckedUpdate, updPending, nUpdChecks, nEffects, updReport, dashOp>>

pagingVars == <<pgnFiltered, pgnPageSize, pgnPages>>

folderViewVars == <<cachedRecords, folderViews>>

vars ==
    <<sessionVars, classifierVars, windowVars, directoryVars, filterVars,
      toastVars,
      parserVars,
      importVars,
      versionVars,
      dashboardVars,
      pagingVars,
      folderViewVars>>

\* What a step of one part of the component leaves alone: the other parts.
SessionFrame ==
    UNCHANGED <<classifierVars, windowVars, directoryVars, filterVars, toastVars,
               parserVars,
               importVars,
               versionVars,
               dashboardVars,
               pagingVars,
               folderViewVars>>
ClassifierFrame ==
    UNCHANGED <<sessionVars, windowVars, directoryVars, filterVars, toastVars,
               parserVars,
               importVars,
               versionVars,
               dashboardVars,
               pagingVars,
               folderViewVars>>
WindowFrame ==
    UNCHANGED <<sessionVars, classifierVars, directoryVars, filterVars, toastVars,
               parserVars,
               importVars,
               versionVars,
               dashboardVars,
               pagingVars,
               folderViewVars>>
DirectoryFrame ==
    UNCHANGED <<sessionVars, classifierVars, windowVars, filterVars, toastVars,
               parserVars,
               importVars,
               versionVars,
               dashboardVars,
               pagingVars,
               folderViewVars>>
FilterFrame ==
    UNCHANGED <<sessionVars, classifierVars, windowVars, directoryVars, toastVars,
               parserVars,
               importVars,
               versionVars,
               dashboardVars,
               pagingVars,
               folderViewVars>>
ToastFrame ==
    UNCHANGED <<sessionVars, classifierVars, windowVars, directoryVars, filterVars,
               parserVars,
               importVars,
               versionVars,
               dashboardVars,
               pagingVars,
               folderViewVars>>
ParserFrame ==
    UNCHANGED <<sessionVars, classifierVars, windowVars, directoryVars, filterVars,
               toastVars,
               importVars,
               versionVars,
               dashboardVars,
               pagingVars,
               folderViewVars>>
ImportFrame ==
    UNCHANGED <<sessionVars, classifierVars, windowVars, filterVars, toastVars,
               parserVars,
               versionVars,
               dashboardVars,
               pagingVars,
               folderViewVars>>
VersionFrame ==
    UNCHANGED <<sessionVars, classifierVars, windowVars, directoryVars, filterVars, toastVars, parserVars, importVars,
               dashboardVars,
               pagingVars,
               folderViewVars>>
DashboardFrame ==
    UNCHANGED <<sessionVars, classifierVars, windowVars, directoryVars, filterVars, toastVars, parserVars, importVars, versionVars,
               pagingVars,
               folderViewVars>>
PagingFrame ==
    UNCHANGED <<sessionVars, classifierVars, windowVars, directoryVars, filterVars, toastVars, parserVars, importVars, versionVars, dashboardVars,
               folderViewVars>>
FolderViewFrame ==
    UNCHANGED <<sessionVars, classifierVars, windowVars, directoryVars, filterVars, toastVars, parserVars, importVars, versionVars, dashboardVars, pagingVars>>

\* What ran last: the handler or continuation, the task it belongs to and,
\* for a resolved load, the requested folder and the list that was returned.
OpWith(name, t, folder, fetched) ==
    [op |-> name, task |-> t, folder |-> folder, fetched |-> fetched]

Op(name, t) == OpWith(name, t, "-", <<>>)

SessionInit ==
    /\ mailViewerOpen = FALSE
    /\ mailViewerEmail = NoAccount
    /\ mailViewerFolder = "INBOX"
    /\ mailViewerRecords = <<>>
    /\ mailViewerLoading = FALSE
    /\ selectedMail = NoMail
    /\ isDetailOpen = FALSE
    /\ tasks = <<>>
    /\ nOpens = 0
    /\ inFlight = {}
    /\ unhandled = 0
    /\ lastOp = Op("mount", 0)

ClassifierIdle ==
    /\ clsInput = Undefined
    /\ clsOutput = "none"

\* The value of an expression that has not been evaluated, and of one that has.
NotEvaluated == [done |-> FALSE, value |-> <<>>]
Evaluated(value) == [done |-> TRUE, value |-> value]

\* The filter expression has not been evaluated.
FilterIdle ==
    /\ fltEmails = <<>>
    /\ fltQuery = <<>>
    /\ fltResult = NotEvaluated

\* What ran last in a toast scheduler: the step, the message shown and its
\* duration (for a step that called showToast), the timer it cancelled and
\* the timer that fired (0 for none).
ToastOp(name, message, duration, cancelled, fired) ==
    [op |-> name, message |-> message, duration |-> duration,
     cancelled |-> cancelled, fired |-> fired]

NoToastOp == ToastOp("mount", "null", 0, 0, 0)

\* The About page after its first render: getVersion() is pending.
AboutInit ==
    /\ version = "loading"
    /\ checking = FALSE
    /\ checkPc = "idle"
    /\ toastMessage = "null"
    /\ toastId = 0
    /\ toastTimerRef = 0
    /\ updateInfo = "null"
    /\ timers = {}
    /\ aboutOp = NoToastOp

\* The toast of the account page after its first render.
MailToastInit ==
    /\ mailToastMessage = "null"
    /\ mailToastId = 0
    /\ mailToastTimerRef = 0
    /\ mailTimers = {}
    /\ copies = {}
    /\ nCopies = 0
    /\ alerts = 0
    /\ mailOp = NoToastOp

ToastInit == AboutInit /\ MailToastInit

\* The separator box as first rendered; no import has been started.
ImportIdle ==
    /\ separator = <<"-", "-", "-", "-">>
    /\ impCalls = <<>>
    /\ impDone = <<>>

\* A version as the components it is written from, with or without "v".
NoVersion == [v |-> FALSE, parts |-> <<>>]

\* compareVersions and checkForUpdate have not been called.
VersionIdle ==
    /\ cmpCurrent = NoVersion
    /\ cmpLatest = NoVersion
    /\ cmpEnv = "ok"
    /\ cmpResult = NotEvaluated

\* UpdateInfo | null: null.
NoUpdateInfo == [found |-> FALSE, version |-> <<>>, downloadUrl |-> <<>>]

\* No checkForUpdate() has settled.
NoReport ==
    [settled |-> FALSE, env |-> "-", current |-> <<>>, latest |-> <<>>,
     info |-> NoUpdateInfo]

\* The Dashboard as constructed, before its effects run.
DashboardInit ==
    /\ dashUpdateInfo = NoUpdateInfo
    /\ showUpdateToast = FALSE
    /\ hasCheckedUpdate = FALSE
    /\ updPending = FALSE
    /\ nUpdChecks = 0
    /\ nEffects = 0
    /\ updReport = NoReport
    /\ dashOp = "mount"

\* parseBatch has not been called.
ParserIdle ==
    /\ prsLines = <<>>
    /\ prsWritten = <<>>
    /\ prsSeparator = <<>>
    /\ prsOutcome = NotEvaluated

\* No list of cached records has been filtered into its two views.
FolderViewIdle ==
    /\ cachedRecords = <<>>
    /\ folderViews = NotEvaluated

\* No render has been paged through.
PagingIdle ==
    /\ pgnFiltered = <<>>
    /\ pgnPageSize = 1
    /\ pgnPages = NotEvaluated

\* buildPageItems has not been called.
WindowIdle ==
    /\ winTotal = 1
    /\ winCurrent = 1
    /\ winItems = <<>>

\* A task that has run to its end is no longer part of the state.
Finish(t) == [u \in DOMAIN tasks \ {t} |-> tasks[u]]

\* ------------------------------------------------- mailbox session actions

\* handleOpenMailbox with the load started without awaiting the sync.
handleOpenMailbox_NoAwait(account, folder) ==
    /\ nOpens < MaxOpens
    /\ nOpens' = nOpens + 1
    /\ mailViewerEmail' = account
    /\ mailViewerFolder' = folder
    /\ mailViewerRecords' = <<>>
    /\ mailViewerOpen' = TRUE
    /\ mailViewerLoading' = TRUE
    /\ tasks' = [u \in DOMAIN tasks \cup {nOpens + 1} |->
                    IF u = nOpens + 1
                    THEN [account |-> account, folder |-> folder, pc |-> "awaitSync"]
                    ELSE tasks[u]]
    /\ inFlight' = inFlight \cup {CheckCall(nOpens + 1, account, folder),
                                  LoadCall(nOpens + 1, account)}
    /\ lastOp' = Op("handleOpenMailbox", nOpens + 1)
    /\ UNCHANGED <<selectedMail, isDetailOpen, unhandled>>

\* handleOpenMailbox without setMailViewerRecords([]).
handleOpenMailbox_KeepsRecords(account, folder) ==
    /\ nOpens < MaxOpens
    /\ nOpens' = nOpens + 1
    /\ mailViewerEmail' = account
    /\ mailViewerFolder' = folder
    /\ mailViewerOpen' = TRUE
    /\ mailViewerLoading' = TRUE
    /\ tasks' = [u \in DOMAIN tasks \cup {nOpens + 1} |->
                    IF u = nOpens + 1
                    THEN [account |-> account, folder |-> folder, pc |-> "awaitSync"]
                    ELSE tasks[u]]
    /\ inFlight' = inFlight \cup {CheckCall(nOpens + 1, account, folder)}
    /\ lastOp' = Op("handleOpenMailbox", nOpens + 1)
    /\ UNCHANGED <<mailViewerRecords, selectedMail, isDetailOpen, unhandled>>

\* handleOpenMailbox up to its first await.
handleOpenMailbox(account, folder) ==
    /\ nOpens < MaxOpens
    /\ nOpens' = nOpens + 1
    /\ mailViewerEmail' = account
    /\ mailViewerFolder' = folder
    /\ mailViewerRecords' = <<>>
    /\ mailViewerOpen' = TRUE
    /\ mailViewerLoading' = TRUE
    /\ tasks' = [u \in DOMAIN tasks \cup {nOpens + 1} |->
                    IF u = nOpens + 1
                    THEN [account |-> account, folder |-> folder, pc |-> "awaitSync"]
                    ELSE tasks[u]]
    /\ inFlight' = inFlight \cup {CheckCall(nOpens + 1, account, folder)}
    /\ lastOp' = Op("handleOpenMailbox", nOpens + 1)
    /\ UNCHANGED <<selectedMail, isDetailOpen, unhandled>>

\* loadMailViewerRecords up to its await, called by task t.
loadMailViewerRecords(t) ==
    /\ mailViewerLoading' = TRUE
    /\ inFlight' = (inFlight \ {CheckCall(t, tasks[t].account, tasks[t].folder)})
                      \cup {LoadCall(t, tasks[t].account)}

\* check_outlook_email resolved: handleOpenMailbox resumes after the try block.
SyncResolved(t) ==
    /\ t \in DOMAIN tasks
    /\ tasks[t].pc = "awaitSync"
    /\ CheckCall(t, tasks[t].account, tasks[t].folder) \in inFlight
    /\ tasks' = [tasks EXCEPT ![t].pc = "awaitLoad"]
    /\ loadMailViewerRecords(t)
    /\ lastOp' = Op("SyncResolved", t)
    /\ UNCHANGED <<mailViewerOpen, mailViewerEmail, mailViewerFolder,
                   mailViewerRecords, selectedMail, isDetailOpen,
                   nOpens, unhandled>>

\* check_outlook_email rejected with no try/catch around the await: the
\* rejection leaves handleOpenMailbox and the load is never started.
SyncRejected_Propagates(t) ==
    /\ t \in DOMAIN tasks
    /\ tasks[t].pc = "awaitSync"
    /\ CheckCall(t, tasks[t].account, tasks[t].folder) \in inFlight
    /\ tasks' = Finish(t)
    /\ inFlight' = inFlight \ {CheckCall(t, tasks[t].account, tasks[t].folder)}
    /\ unhandled' = unhandled + 1
    /\ lastOp' = Op("SyncRejected", t)
    /\ UNCHANGED <<viewVars, nOpens>>

\* check_outlook_email rejected: the catch block logs, then the load is started.
SyncRejected(t) ==
    /\ t \in DOMAIN tasks
    /\ tasks[t].pc = "awaitSync"
    /\ CheckCall(t, tasks[t].account, tasks[t].folder) \in inFlight
    /\ tasks' = [tasks EXCEPT ![t].pc = "awaitLoad"]
    /\ loadMailViewerRecords(t)
    /\ lastOp' = Op("SyncRejected", t)
    /\ UNCHANGED <<mailViewerOpen, mailViewerEmail, mailViewerFolder,
                   mailViewerRecords, selectedMail, isDetailOpen,
                   nOpens, unhandled>>

\* get_mail_records resolved with `records`: try body, then finally.
LoadResolved(t, records) ==
    /\ t \in DOMAIN tasks
    /\ tasks[t].pc = "awaitLoad"
    /\ LoadCall(t, tasks[t].account) \in inFlight
    /\ records \in MailRecordsOf(tasks[t].account)
    /\ mailViewerRecords' = filterMailRecordsByFolder(records, tasks[t].folder)
    /\ mailViewerLoading' = FALSE
    /\ tasks' = Finish(t)
    /\ inFlight' = inFlight \ {LoadCall(t, tasks[t].account)}
    /\ lastOp' = OpWith("LoadResolved", t, tasks[t].folder, records)
    /\ UNCHANGED <<mailViewerOpen, mailViewerEmail, mailViewerFolder,
                   selectedMail, isDetailOpen, nOpens, unhandled>>

\* get_mail_records rejected with no catch and no finally.
LoadRejected_Uncaught(t) ==
    /\ t \in DOMAIN tasks
    /\ tasks[t].pc = "awaitLoad"
    /\ LoadCall(t, tasks[t].account) \in inFlight
    /\ tasks' = Finish(t)
    /\ inFlight' = inFlight \ {LoadCall(t, tasks[t].account)}
    /\ unhandled' = unhandled + 1
    /\ lastOp' = Op("LoadRejected", t)
    /\ UNCHANGED <<viewVars, nOpens>>

\* get_mail_records rejected with the catch block but no finally.
LoadRejected_NoFinally(t) ==
    /\ t \in DOMAIN tasks
    /\ tasks[t].pc = "awaitLoad"
    /\ LoadCall(t, tasks[t].account) \in inFlight
    /\ mailViewerRecords' = <<>>
    /\ tasks' = Finish(t)
    /\ inFlight' = inFlight \ {LoadCall(t, tasks[t].account)}
    /\ lastOp' = Op("LoadRejected", t)
    /\ UNCHANGED <<mailViewerOpen, mailViewerEmail, mailViewerFolder,
                   mailViewerLoading, selectedMail, isDetailOpen, nOpens,
                   unhandled>>

\* get_mail_records rejected: catch block, then finally.
LoadRejected(t) ==
    /\ t \in DOMAIN tasks
    /\ tasks[t].pc = "awaitLoad"
    /\ LoadCall(t, tasks[t].account) \in inFlight
    /\ mailViewerRecords' = <<>>
    /\ mailViewerLoading' = FALSE
    /\ tasks' = Finish(t)
    /\ inFlight' = inFlight \ {LoadCall(t, tasks[t].account)}
    /\ lastOp' = Op("LoadRejected", t)
    /\ UNCHANGED <<mailViewerOpen, mailViewerEmail, mailViewerFolder,
                   selectedMail, isDetailOpen, nOpens, unhandled>>

\* handleCloseMailbox without the two detail setters.
handleCloseMailbox_KeepsDetail ==
    /\ mailViewerOpen
    /\ mailViewerEmail # NoAccount
    /\ mailViewerOpen' = FALSE
    /\ mailViewerEmail' = NoAccount
    /\ mailViewerRecords' = <<>>
    /\ lastOp' = Op("handleCloseMailbox", 0)
    /\ UNCHANGED <<selectedMail, isDetailOpen, mailViewerFolder,
                   mailViewerLoading, tasks, nOpens, inFlight, unhandled>>

\* The close button, the footer button and the overlay are rendered while
\* mailViewerOpen && mailViewerEmail.
handleCloseMailbox ==
    /\ mailViewerOpen
    /\ mailViewerEmail # NoAccount
    /\ mailViewerOpen' = FALSE
    /\ mailViewerEmail' = NoAccount
    /\ mailViewerRecords' = <<>>
    /\ selectedMail' = NoMail
    /\ isDetailOpen' = FALSE
    /\ lastOp' = Op("handleCloseMailbox", 0)
    /\ UNCHANGED <<mailViewerFolder, mailViewerLoading, tasks, nOpens,
                   inFlight, unhandled>>

\* A row of the record list is rendered while the viewer is open and not loading.
handleViewMailDetail(mail) ==
    /\ mailViewerOpen
    /\ mailViewerEmail # NoAccount
    /\ ~mailViewerLoading
    /\ \E i \in DOMAIN mailViewerRecords : mailViewerRecords[i] = mail
    /\ selectedMail' = mail
    /\ isDetailOpen' = TRUE
    /\ lastOp' = Op("handleViewMailDetail", 0)
    /\ UNCHANGED <<mailViewerOpen, mailViewerEmail, mailViewerFolder,
                   mailViewerRecords, mailViewerLoading, tasks, nOpens,
                   inFlight, unhandled>>

\* onClose of MailDetailModal, rendered while selectedMail is set.
closeMailDetail ==
    /\ selectedMail # NoMail
    /\ isDetailOpen
    /\ isDetailOpen' = FALSE
    /\ selectedMail' = NoMail
    /\ lastOp' = Op("closeMailDetail", 0)
    /\ UNCHANGED <<mailViewerOpen, mailViewerEmail, mailViewerFolder,
                   mailViewerRecords, mailViewerLoading, tasks, nOpens,
                   inFlight, unhandled>>

\* ------------------------------------------------------ classifier actions

\* normalizeFolder applied to the raw label.
Classify ==
    /\ clsOutput = "none"
    /\ clsOutput' = normalizeFolder(clsInput)
    /\ UNCHANGED clsInput

\* ------------------------------------------------------------ page strip

\* The 'ellipsis' entry of the page strip.  Page numbers start at 1, so 0 is
\* free to stand for it in a sequence of numbers.
Ellipsis == 0

\* buildPageItems with the second branch left one page earlier (current <= 2).
buildPageItems_ShortHead(total, current) ==
    IF total <= 7
    THEN [index \in 1..total |-> index]
    ELSE IF current <= 2
    THEN <<1, 2, 3, 4, Ellipsis, total>>
    ELSE IF current >= total - 2
    THEN <<1, Ellipsis, total - 3, total - 2, total - 1, total>>
    ELSE <<1, Ellipsis, current - 1, current, current + 1, Ellipsis, total>>

\* buildPageItems with the third branch taken one page later (total - 1).
buildPageItems_LateTail(total, current) ==
    IF total <= 7
    THEN [index \in 1..total |-> index]
    ELSE IF current <= 3
    THEN <<1, 2, 3, 4, Ellipsis, total>>
    ELSE IF current >= total - 1
    THEN <<1, Ellipsis, total - 3, total - 2, total - 1, total>>
    ELSE <<1, Ellipsis, current - 1, current, current + 1, Ellipsis, total>>

buildPageItems(total, current) ==
    IF total <= 7
    THEN [index \in 1..total |-> index]
    ELSE IF current <= 3
    THEN <<1, 2, 3, 4, Ellipsis, total>>
    ELSE IF current >= total - 2
    THEN <<1, Ellipsis, total - 3, total - 2, total - 1, total>>
    ELSE <<1, Ellipsis, current - 1, current, current + 1, Ellipsis, total>>

\* ------------------------------------------------------- account directory

\* The addresses of the accounts, by id modulo their number: two that contain
\* "a", two that contain "b" in either case.
Addresses ==
    << <<"a", "@", "x">>,
       <<"A", "b", "@", "x">>,
       <<"B", "@", "x">> >>

AddressOf(id) == Addresses[((id - 1) % Len(Addresses)) + 1]

\* An EmailAccount; of the fields that are not the address, the password.
AccountOf(id) ==
    [id |-> id, email |-> AddressOf(id), password |-> <<"p", "a", "s", "s">>]

RECURSIVE ListOf(_)
\* What get_emails returns for a store holding `ids`: its accounts by id.
ListOf(ids) ==
    IF ids = {} THEN <<>>
    ELSE LET first == CHOOSE id \in ids : \A other \in ids : id <= other
         IN  <<AccountOf(first)>> \o ListOf(ids \ {first})

\* The options of the page-size select, in rows per page.  The select offers
\* 10, 20 and 50; the model keeps the two smallest at one tenth, so that a few
\* accounts fill several pages.
PageSizes == {1, 2}
DefaultPageSize == 1

\* The ids of the accounts the external store holds when the component mounts,
\* and the ids it has to give: the import file holds one account, which the
\* store accepts once.
InitialStore == {1, 2}
AllAccountIds == {1, 2, 3}

\* What is typed into the search box.
Queries == {<<>>, <<"B">>}

\* Array.prototype.includes on an array of ids.
includesId(ids, id) == \E i \in DOMAIN ids : ids[i] = id

\* emails.filter(...) with every field of the account searched.
filterEmails_AnyField(list, query) ==
    SelectSeq(list, LAMBDA e :
        \/ includes(toLowerCase(e.email), toLowerCase(query))
        \/ includes(toLowerCase(e.password), toLowerCase(query)))

\* emails.filter(e => e.email.toLowerCase().includes(searchQuery.toLowerCase()))
filterEmails(list, query) ==
    SelectSeq(list, LAMBDA e : includes(toLowerCase(e.email), toLowerCase(query)))

\* Math.ceil(n / d) for n >= 0 and d > 0.
ceilDiv(n, d) == (n + d - 1) \div d

max(a, b) == IF a >= b THEN a ELSE b
min(a, b) == IF a <= b THEN a ELSE b

\* Array.prototype.slice(from, to) with 0 <= from <= to.
slice(list, from, to) == SubSeq(list, from + 1, min(to, Len(list)))

\* The other values derived in each render.
totalPages == max(1, ceilDiv(Len(filteredEmails), pageSize))
pageStart == (currentPage - 1) * pageSize
paginatedEmails == slice(filteredEmails, pageStart, pageStart + pageSize)
pageEmailIds == [i \in DOMAIN paginatedEmails |-> paginatedEmails[i].id]
allPageSelected ==
    /\ Len(pageEmailIds) > 0
    /\ \A i \in DOMAIN pageEmailIds : includesId(selectedIds, pageEmailIds[i])
pageItems == buildPageItems(totalPages, currentPage)

\* A suspended async handler of the directory.
DirTask(kind, id, ids, next) ==
    [kind |-> kind, id |-> id, ids |-> ids, next |-> next,
     served |-> FALSE, snapshot |-> <<>>]

LoadEmailsTask == DirTask("loadEmails", 0, <<>>, 0)

\* What ran last: the handler or continuation, its task, the id it is about,
\* the loadEmails task it started (0 for none) and, when it rendered another
\* filtered list or page size, the page it found (0 otherwise).
DirOpAt(name, t, id, started, page) ==
    [op |-> name, task |-> t, id |-> id, started |-> started, page |-> page]

DirOp(name, t, id, started) == DirOpAt(name, t, id, started, 0)

\* The component after its first render and its mount effects: loadEmails()
\* has been called and waits for get_emails.
DirectoryInit ==
    /\ emails = <<>>
    /\ loading = TRUE
    /\ selectedIds = <<>>
    /\ currentPage = 1
    /\ pageSize = DefaultPageSize
    /\ searchQuery = <<>>
    /\ filteredEmails = <<>>
    /\ importResult = "null"
    /\ store = InitialStore
    /\ nextId = Cardinality(InitialStore) + 1
    /\ dirTasks = (1 :> LoadEmailsTask)
    /\ nDirTasks = 1
    /\ nDirOps = 0
    /\ dirOp = DirOp("mount", 0, 0, 1)

\* ---------------------------------------------------------- specifications

Init ==
    /\ SessionInit
    /\ ClassifierIdle
    /\ WindowIdle
    /\ DirectoryInit
    /\ FilterIdle
    /\ ToastInit
    /\ FolderViewIdle
    /\ PagingIdle
    /\ DashboardInit
    /\ VersionIdle
    /\ ImportIdle
    /\ ParserIdle

\* One handler or continuation of the mailbox session; Responses[emailId] is
\* the set of lists get_mail_records may return for emailId.
SessionStep(Responses) ==
    \/ \E account \in AccountIds, folder \in MailFolder :
           handleOpenMailbox(account, folder) /\ SessionFrame
    \/ \E t \in DOMAIN tasks : SyncResolved(t) /\ SessionFrame
    \/ \E t \in DOMAIN tasks : SyncRejected(t) /\ SessionFrame
    \/ \E t \in DOMAIN tasks :
           \E records \in Responses[tasks[t].account] :
               LoadResolved(t, records) /\ SessionFrame
    \/ \E t \in DOMAIN tasks : LoadRejected(t) /\ SessionFrame
    \/ handleCloseMailbox /\ SessionFrame
    \/ \E i \in DOMAIN mailViewerRecords :
           handleViewMailDetail(mailViewerRecords[i]) /\ SessionFrame
    \/ closeMailDetail /\ SessionFrame

Next == SessionStep([emailId \in AccountIds |-> MailRecordsOf(emailId)])

\* The mailbox session controller under every interleaving of user events and
\* settlements of the external calls.
Spec == Init /\ [][Next]_vars

\* The progress of the session does not depend on what a load returns: the
\* fair specification draws the returned lists from the lists of at most one
\* record.
ShortMailRecordsOf(emailId) == {r \in MailRecordsOf(emailId) : Len(r) <= 1}

FairNext == SessionStep([emailId \in AccountIds |-> ShortMailRecordsOf(emailId)])

\* The settlement of task t's check_outlook_email call, either way.
SyncSettled(t) ==
    /\ SyncResolved(t) \/ SyncRejected(t)
    /\ SessionFrame

\* The settlement of task t's get_mail_records call, either way.
LoadSettled(t) ==
    /\ t \in DOMAIN tasks
    /\ \/ \E records \in ShortMailRecordsOf(tasks[t].account) : LoadResolved(t, records)
       \/ LoadRejected(t)
    /\ SessionFrame

\* The same controller, assuming every issued external call eventually
\* resolves or rejects (the event loop then runs the continuation).
FairSpec ==
    /\ Init
    /\ [][FairNext]_vars
    /\ \A t \in 1..MaxOpens : WF_vars(SyncSettled(t))
    /\ \A t \in 1..MaxOpens : WF_vars(LoadSettled(t))

ClassifierInit ==
    /\ SessionInit
    /\ WindowIdle
    /\ DirectoryInit
    /\ FilterIdle
    /\ ToastInit
    /\ FolderViewIdle
    /\ PagingIdle
    /\ DashboardInit
    /\ VersionIdle
    /\ ImportIdle
    /\ ParserIdle
    /\ clsInput \in RawLabels
    /\ clsOutput = "none"

ClassifierNext == Classify /\ ClassifierFrame

\* normalizeFolder applied to every raw label of RawLabels.
ClassifierSpec == ClassifierInit /\ [][ClassifierNext]_vars

\* ------------------------------------------------------------- properties

\* The external calls of task t that are in flight.
CallsOf(t) == {c \in inFlight : c.task = t}

\* C1: while the viewer is open, every visible record belongs to the active
\* (account, folder) pair: no completion of an earlier open writes its
\* records into the session of a later open.
C1_StaleResultGuard ==
    mailViewerOpen =>
        \A i \in DOMAIN mailViewerRecords :
            /\ mailViewerRecords[i].email_id = mailViewerEmail
            /\ normalizeFolder(mailViewerRecords[i].folder) = mailViewerFolder

\* C2: if every issued call eventually settles, an open session that is
\* loading eventually is not loading or is closed, and every open runs to
\* the end of its load step, which leaves loading = false, whichever of the
\* four outcomes (sync ok/failed, load ok/failed) it takes.
C2_LoadingEventuallyEnds ==
    /\ (mailViewerOpen /\ mailViewerLoading) ~> (~mailViewerLoading \/ ~mailViewerOpen)
    /\ \A t \in 1..MaxOpens :
           (t \in DOMAIN tasks) ~>
               /\ t \notin DOMAIN tasks
               /\ lastOp.task = t
               /\ lastOp.op \in {"LoadResolved", "LoadRejected"}
               /\ ~mailViewerLoading

\* C2 witness: an open whose load failed has left the loading phase.
C2_Witness ==
    /\ lastOp.op = "LoadRejected"
    /\ mailViewerOpen
    /\ ~mailViewerLoading
    /\ DOMAIN tasks = {}

\* C3: the step that follows the settlement of check_outlook_email, resolved
\* or rejected alike, issues get_mail_records for the same account, keeps
\* the session loading, raises no rejection and changes nothing else of the
\* visible session.
C3_SyncIsBestEffort ==
    [][ \A t \in DOMAIN tasks :
            (tasks[t].pc = "awaitSync" /\ lastOp' \in {Op("SyncResolved", t),
                                                       Op("SyncRejected", t)})
            => /\ t \in DOMAIN tasks'
               /\ tasks'[t] = [tasks[t] EXCEPT !.pc = "awaitLoad"]
               /\ LoadCall(t, tasks[t].account) \in inFlight'
               /\ mailViewerLoading'
               /\ unhandled' = unhandled
               /\ UNCHANGED <<mailViewerOpen, mailViewerEmail, mailViewerFolder,
                              mailViewerRecords, selectedMail, isDetailOpen>>
      ]_vars

\* C3 witness: the sync was rejected and the load call is in flight.
C3_Witness ==
    /\ lastOp.op = "SyncRejected"
    /\ lastOp.task \in DOMAIN tasks
    /\ LoadCall(lastOp.task, tasks[lastOp.task].account) \in inFlight
    /\ mailViewerOpen
    /\ mailViewerLoading

\* C4: right after a failed load the record list is empty and loading is
\* false, and no rejection ever leaves the controller.
C4_LoadFailureIsEmpty ==
    /\ unhandled = 0
    /\ lastOp.op = "LoadRejected" => (mailViewerRecords = <<>> /\ ~mailViewerLoading)

\* C4 witness: a load has failed in an open viewer.
C4_Witness ==
    /\ lastOp.op = "LoadRejected"
    /\ mailViewerOpen
    /\ mailViewerRecords = <<>>
    /\ ~mailViewerLoading

\* C5: an open first clears the records and sets loading, with its sync call
\* issued and no load call; the load call of an open is in flight only after
\* its sync call has settled, never together with it.
C5_OpenStepOrder ==
    /\ lastOp.op = "handleOpenMailbox" =>
           /\ mailViewerRecords = <<>>
           /\ mailViewerLoading
           /\ CallsOf(lastOp.task) =
                  {CheckCall(lastOp.task, mailViewerEmail, mailViewerFolder)}
    /\ \A c \in inFlight :
           c.cmd = "get_mail_records" =>
               /\ c.task \in DOMAIN tasks
               /\ tasks[c.task].pc = "awaitLoad"
               /\ c.emailId = tasks[c.task].account
               /\ CallsOf(c.task) = {c}
    /\ \A t \in DOMAIN tasks :
           tasks[t].pc = "awaitSync" =>
               CallsOf(t) = {CheckCall(t, tasks[t].account, tasks[t].folder)}

\* C5 witness: the sync of an open has settled and its load call is in flight.
C5_Witness ==
    /\ lastOp.op \in {"SyncResolved", "SyncRejected"}
    /\ \E c \in inFlight : c.cmd = "get_mail_records" /\ c.task = lastOp.task

\* C6: right after handleOpenMailbox, with the sync call of that open still
\* in flight, the viewer is open on the chosen account and folder, the record
\* list is empty and loading is true.
C6_OpenIsImmediate ==
    lastOp.op = "handleOpenMailbox" =>
        /\ lastOp.task \in DOMAIN tasks
        /\ tasks[lastOp.task].pc = "awaitSync"
        /\ mailViewerOpen
        /\ mailViewerEmail = tasks[lastOp.task].account
        /\ mailViewerFolder = tasks[lastOp.task].folder
        /\ mailViewerRecords = <<>>
        /\ mailViewerLoading

\* C6 witness: a second open, made while a record of the first session was
\* being viewed, shows no records.
C6_Witness ==
    /\ lastOp = Op("handleOpenMailbox", 2)
    /\ selectedMail # NoMail
    /\ mailViewerRecords = <<>>
    /\ mailViewerLoading

\* C7: close is enabled whenever the viewer is open, whatever the tasks are
\* doing, and right after it the viewer is closed, the account is cleared,
\* the record list is empty and no message detail is selected or open.
C7_CloseDiscardsSession ==
    /\ mailViewerOpen => ENABLED handleCloseMailbox
    /\ lastOp.op = "handleCloseMailbox" =>
           /\ ~mailViewerOpen
           /\ mailViewerEmail = NoAccount
           /\ mailViewerRecords = <<>>
           /\ selectedMail = NoMail
           /\ ~isDetailOpen

\* C7 witness: the viewer was closed while an open was still in flight.
C7_Witness ==
    /\ lastOp.op = "handleCloseMailbox"
    /\ DOMAIN tasks # {}
    /\ ~mailViewerOpen

\* C8: right after handleOpenMailbox everything close() discards has been
\* discarded: no message detail of the previous session is selected or open.
C8_ReopenIsCloseThenOpen ==
    lastOp.op = "handleOpenMailbox" => (selectedMail = NoMail /\ ~isDetailOpen)

\* r is the sub-sequence of fetched, in order, of the records classified as folder.
IsFolderSubsequence(r, fetched, folder) ==
    LET matching == {i \in DOMAIN fetched : normalizeFolder(fetched[i].folder) = folder}
    IN  /\ Len(r) = Cardinality(matching)
        /\ \E g \in [DOMAIN r -> matching] :
               /\ \A i, j \in DOMAIN r : i < j => g[i] < g[j]
               /\ \A i \in DOMAIN r : r[i] = fetched[g[i]]

\* C9: right after get_mail_records resolved with a list, the stored list is
\* exactly the records of that list classified as the requested folder, in
\* the order they were fetched.
C9_LoadStoresFilteredList ==
    lastOp.op = "LoadResolved" =>
        IsFolderSubsequence(mailViewerRecords, lastOp.fetched, lastOp.folder)

\* C9 witness: a load fetched a record of the other folder followed by one
\* of the requested folder, and stored only the second.
C9_Witness ==
    /\ lastOp.op = "LoadResolved"
    /\ Len(lastOp.fetched) = 2
    /\ normalizeFolder(lastOp.fetched[1].folder) # lastOp.folder
    /\ mailViewerRecords = <<lastOp.fetched[2]>>

\* The raw label, as written, holds word at some position when compared
\* without regard to case.
MentionsWord(text, word) ==
    \E start \in 0..(Len(text) - Len(word)) :
        \A k \in 1..Len(word) : LowerChar(text[start + k]) = word[k]

\* C10: normalizeFolder returns INBOX or JUNK for every raw label, JUNK
\* exactly for the labels that hold "junk", "spam" or the localized junk term
\* in any case, and INBOX for undefined and for the empty string.
C10_ClassifierRule ==
    clsOutput # "none" =>
        /\ clsOutput \in MailFolder
        /\ clsOutput = "JUNK" <=>
               /\ clsInput.defined
               /\ \/ MentionsWord(clsInput.text, JunkWord)
                  \/ MentionsWord(clsInput.text, SpamWord)
                  \/ MentionsWord(clsInput.text, LocalizedJunkWord)

\* C10 witness: a label with leading white space that holds a junk word only
\* in upper or mixed case was classified JUNK.
C10_Witness ==
    /\ clsOutput = "JUNK"
    /\ clsInput.defined
    /\ Len(clsInput.text) > 1
    /\ IsWhiteSpace(clsInput.text[1])
    /\ ~includes(clsInput.text, JunkWord)
    /\ ~includes(clsInput.text, SpamWord)
    /\ ~includes(clsInput.text, LocalizedJunkWord)

\* ============================================================ page window

\* const pageItems = buildPageItems(totalPages, currentPage)
RenderPageItems ==
    /\ winItems = <<>>
    /\ winItems' = buildPageItems(winTotal, winCurrent)
    /\ UNCHANGED <<winTotal, winCurrent>>

\* totalPages is at least 1; currentPage is at least 1 and, in the render that
\* precedes the clamp, may be above totalPages.
WindowInit ==
    /\ SessionInit
    /\ ClassifierIdle
    /\ DirectoryInit
    /\ FilterIdle
    /\ ToastInit
    /\ FolderViewIdle
    /\ PagingIdle
    /\ DashboardInit
    /\ VersionIdle
    /\ ImportIdle
    /\ ParserIdle
    /\ winTotal \in 1..MaxTotalPages
    /\ winCurrent \in 1..MaxTotalPages
    /\ winItems = <<>>

WindowNext == RenderPageItems /\ WindowFrame

\* buildPageItems applied to every pair of a page count and a page number.
WindowSpec == WindowInit /\ [][WindowNext]_vars

\* The strip has been computed for a page inside the page range.
WindowRendered == winItems # <<>> /\ winCurrent <= winTotal

\* C11: for 1 <= currentPage <= totalPages the page strip is 1..totalPages
\* without an ellipsis when totalPages <= 7; otherwise it is
\* [1,2,3,4,ELLIPSIS,totalPages] when currentPage <= 3, otherwise
\* [1,ELLIPSIS,totalPages-3..totalPages] when currentPage >= totalPages-2,
\* otherwise [1,ELLIPSIS,currentPage-1,currentPage,currentPage+1,ELLIPSIS,
\* totalPages]; (10,1), (10,9) and (10,5) give the three strips of the examples.
C11_PageWindowBranches ==
    WindowRendered =>
        /\ winTotal <= 7 =>
               /\ Len(winItems) = winTotal
               /\ \A i \in 1..winTotal : winItems[i] = i
        /\ (winTotal > 7 /\ winCurrent <= 3) =>
               winItems = <<1, 2, 3, 4, Ellipsis, winTotal>>
        /\ (winTotal > 7 /\ winCurrent > 3 /\ winCurrent >= winTotal - 2) =>
               winItems = <<1, Ellipsis, winTotal - 3, winTotal - 2,
                            winTotal - 1, winTotal>>
        /\ (winTotal > 7 /\ winCurrent > 3 /\ winCurrent < winTotal - 2) =>
               winItems = <<1, Ellipsis, winCurrent - 1, winCurrent,
                            winCurrent + 1, Ellipsis, winTotal>>
        /\ (winTotal = 10 /\ winCurrent = 1) =>
               winItems = <<1, 2, 3, 4, Ellipsis, 10>>
        /\ (winTotal = 10 /\ winCurrent = 9) =>
               winItems = <<1, Ellipsis, 7, 8, 9, 10>>
        /\ (winTotal = 10 /\ winCurrent = 5) =>
               winItems = <<1, Ellipsis, 4, 5, 6, Ellipsis, 10>>

\* The strip of page 8 of 10 (the first page of the third branch) is computed.
C11_Witness ==
    /\ WindowRendered
    /\ winTotal = 10
    /\ winCurrent = 8
    /\ winItems = <<1, Ellipsis, 7, 8, 9, 10>>

\* ====================================================== account directory

\* The commit that follows a handler's state updates, with `page` the value
\* the handler left in currentPage, and the effects of that commit.  Both
\* effects see the values of that render; their updates are applied in order
\* in the next render, whose clamp effect runs again if currentPage changed.
RenderAndEffects_NoClamp(page) ==
    LET resetDue == searchQuery' # searchQuery \/ pageSize' # pageSize
    IN  currentPage' = IF resetDue THEN 1 ELSE page

RenderAndEffects(page) ==
    LET resetDue == searchQuery' # searchQuery \/ pageSize' # pageSize
        clampDue == /\ page # currentPage \/ totalPages' # totalPages
                    /\ page > totalPages'
        updates  == (IF resetDue THEN <<1>> ELSE <<>>)
                        \o (IF clampDue THEN <<totalPages'>> ELSE <<>>)
        second   == IF updates = <<>> THEN page ELSE updates[Len(updates)]
    IN  currentPage' = IF second # page /\ second > totalPages'
                       THEN totalPages'
                       ELSE second

\* The pagination bar is rendered while the filtered list is not empty.
PaginationBar == Len(filteredEmails) > 0

\* onChange of the search box.
setSearchQuery(query) ==
    /\ query # searchQuery
    /\ searchQuery' = query
    /\ filteredEmails' = filterEmails(emails, query)
    /\ UNCHANGED <<emails, pageSize>>
    /\ RenderAndEffects(currentPage)
    /\ dirOp' = DirOpAt("setSearchQuery", 0, 0, 0, currentPage)
    /\ UNCHANGED <<loading, selectedIds, importResult, store, nextId,
                   dirTasks, nDirTasks, nDirOps>>

\* onChange of the page-size select.
setPageSize(size) ==
    /\ PaginationBar
    /\ size # pageSize
    /\ pageSize' = size
    /\ UNCHANGED <<emails, searchQuery, filteredEmails>>
    /\ RenderAndEffects(currentPage)
    /\ dirOp' = DirOpAt("setPageSize", 0, 0, 0, currentPage)
    /\ UNCHANGED <<loading, selectedIds, importResult, store, nextId,
                   dirTasks, nDirTasks, nDirOps>>

\* A page change that also empties the selection.
setCurrentPage_ClearsSelection(name, page) ==
    /\ PaginationBar
    /\ UNCHANGED <<emails, searchQuery, filteredEmails, pageSize>>
    /\ RenderAndEffects(page)
    /\ selectedIds' = <<>>
    /\ dirOp' = DirOp(name, 0, 0, 0)
    /\ UNCHANGED <<loading, importResult, store, nextId,
                   dirTasks, nDirTasks, nDirOps>>

\* A click on a pagination button that leaves `page` in currentPage.
setCurrentPage(name, page) ==
    /\ PaginationBar
    /\ UNCHANGED <<emails, searchQuery, filteredEmails, pageSize>>
    /\ RenderAndEffects(page)
    /\ dirOp' = DirOp(name, 0, 0, 0)
    /\ UNCHANGED <<loading, selectedIds, importResult, store, nextId,
                   dirTasks, nDirTasks, nDirOps>>

\* The "previous" button, disabled on page 1.
PreviousPage ==
    /\ currentPage # 1
    /\ setCurrentPage("PreviousPage", max(1, currentPage - 1))

\* The "next" button, disabled on the last page.
NextPage ==
    /\ currentPage # totalPages
    /\ setCurrentPage("NextPage", min(totalPages, currentPage + 1))

\* The button of a page number of the strip.
GoToPage(item) ==
    /\ item # Ellipsis
    /\ setCurrentPage("GoToPage", item)

RECURSIVE uniq(_)
\* Array.from(new Set(list)): the first occurrence of every element, in order.
uniq(list) ==
    IF list = <<>> THEN <<>>
    ELSE LET front == uniq(SubSeq(list, 1, Len(list) - 1))
             last  == list[Len(list)]
         IN  IF includesId(front, last) THEN front ELSE Append(front, last)

\* The handlers below change neither the list nor what the page depends on.
SelectionFrame ==
    /\ UNCHANGED <<emails, searchQuery, filteredEmails, pageSize>>
    /\ RenderAndEffects(currentPage)
    /\ UNCHANGED <<loading, importResult, store, nextId, dirTasks, nDirTasks,
                   nDirOps>>

\* handleSelectAll with the two branches exchanged.
handleSelectAll_Swapped(checked, ids) ==
    /\ IF Len(ids) = 0
       THEN UNCHANGED selectedIds
       ELSE IF ~checked
       THEN selectedIds' = uniq(selectedIds \o ids)
       ELSE selectedIds' = SelectSeq(selectedIds, LAMBDA id : ~includesId(ids, id))
    /\ dirOp' = DirOp(IF checked THEN "selectAll" ELSE "deselectAll", 0, 0, 0)
    /\ SelectionFrame

\* The header checkbox: handleSelectAll(e.target.checked, pageEmailIds).
handleSelectAll(checked, ids) ==
    /\ IF Len(ids) = 0
       THEN UNCHANGED selectedIds
       ELSE IF checked
       THEN selectedIds' = uniq(selectedIds \o ids)
       ELSE selectedIds' = SelectSeq(selectedIds, LAMBDA id : ~includesId(ids, id))
    /\ dirOp' = DirOp(IF checked THEN "selectAll" ELSE "deselectAll", 0, 0, 0)
    /\ SelectionFrame

\* The table body shows the rows of the current page: not the loading row
\* (loading ? ...) and not the empty state.
rowsRendered == ~loading /\ Len(filteredEmails) # 0

\* toggleSelect that flips the first row of the page, whichever row's
\* checkbox was clicked.
toggleSelect_FirstRow(id) ==
    /\ rowsRendered
    /\ includesId(pageEmailIds, id)
    /\ IF includesId(selectedIds, pageEmailIds[1])
       THEN selectedIds' = SelectSeq(selectedIds, LAMBDA i : i # pageEmailIds[1])
       ELSE selectedIds' = Append(selectedIds, pageEmailIds[1])
    /\ dirOp' = DirOp("toggleSelect", 0, id, 0)
    /\ SelectionFrame

\* The checkbox of the row of account `id` on the current page, rendered with
\* the row.
toggleSelect(id) ==
    /\ rowsRendered
    /\ includesId(pageEmailIds, id)
    /\ IF includesId(selectedIds, id)
       THEN selectedIds' = SelectSeq(selectedIds, LAMBDA i : i # id)
       ELSE selectedIds' = Append(selectedIds, id)
    /\ dirOp' = DirOp("toggleSelect", 0, id, 0)
    /\ SelectionFrame

\* The directory tasks without task t, which has run to its end.
DirFinish(t) == [u \in DOMAIN dirTasks \ {t} |-> dirTasks[u]]

\* loadEmails() up to its await, called from a handler that leaves `rest`
\* suspended: a new task waits for get_emails.  (setLoading(true) is written
\* by the caller, which may overwrite it in the same commit.)
loadEmails(rest) ==
    /\ dirTasks' = [u \in DOMAIN rest \cup {nDirTasks + 1} |->
                       IF u = nDirTasks + 1 THEN LoadEmailsTask ELSE rest[u]]
    /\ nDirTasks' = nDirTasks + 1

\* A handler that starts the task `task` and awaits its first call.
StartDirTask(task) ==
    /\ nDirOps < MaxDirOps
    /\ nDirOps' = nDirOps + 1
    /\ nDirTasks' = nDirTasks + 1
    /\ dirTasks' = [u \in DOMAIN dirTasks \cup {nDirTasks + 1} |->
                       IF u = nDirTasks + 1 THEN task ELSE dirTasks[u]]

\* The store serves get_emails for task t: the list is read at this moment.
ServeGetEmails(t) ==
    /\ dirTasks[t].kind = "loadEmails"
    /\ ~dirTasks[t].served
    /\ dirTasks' = [dirTasks EXCEPT ![t].served = TRUE,
                                    ![t].snapshot = ListOf(store)]
    /\ dirOp' = DirOp("ServeGetEmails", t, 0, 0)
    /\ UNCHANGED <<emails, loading, selectedIds, pageVars, importResult,
                   store, nextId, nDirTasks, nDirOps>>

\* get_emails resolved: setEmails(list), then finally.
LoadEmailsResolved(t) ==
    /\ dirTasks[t].kind = "loadEmails"
    /\ dirTasks[t].served
    /\ emails' = dirTasks[t].snapshot
    /\ filteredEmails' = filterEmails(dirTasks[t].snapshot, searchQuery)
    /\ loading' = FALSE
    /\ UNCHANGED <<searchQuery, pageSize>>
    /\ RenderAndEffects(currentPage)
    /\ dirTasks' = DirFinish(t)
    /\ dirOp' = DirOpAt("LoadEmailsResolved", t, 0, 0, currentPage)
    /\ UNCHANGED <<selectedIds, importResult, store, nextId, nDirTasks, nDirOps>>

\* get_emails rejected: the catch block logs, then finally.
LoadEmailsRejected(t) ==
    /\ dirTasks[t].kind = "loadEmails"
    /\ loading' = FALSE
    /\ dirTasks' = DirFinish(t)
    /\ dirOp' = DirOp("LoadEmailsRejected", t, 0, 0)
    /\ UNCHANGED <<emails, selectedIds, pageVars, importResult, store, nextId,
                   nDirTasks, nDirOps>>

\* The delete button of a row, rendered with the row, confirmed:
\* handleDelete up to its await.
handleDelete(id) ==
    /\ rowsRendered
    /\ includesId(pageEmailIds, id)
    /\ StartDirTask(DirTask("handleDelete", id, <<>>, 0))
    /\ dirOp' = DirOp("handleDelete", nDirTasks + 1, id, 0)
    /\ UNCHANGED <<emails, loading, selectedIds, pageVars, importResult,
                   store, nextId>>

\* delete_email resolved, with the row taken out of the list in memory
\* instead of a reload.
DeleteResolved_Patches(t) ==
    /\ dirTasks[t].kind = "handleDelete"
    /\ dirTasks[t].id \in store
    /\ store' = store \ {dirTasks[t].id}
    /\ emails' = SelectSeq(emails, LAMBDA e : e.id # dirTasks[t].id)
    /\ filteredEmails' = filterEmails(emails', searchQuery)
    /\ UNCHANGED <<searchQuery, pageSize>>
    /\ RenderAndEffects(currentPage)
    /\ dirTasks' = DirFinish(t)
    /\ dirOp' = DirOp("DeleteResolved", t, dirTasks[t].id, 0)
    /\ UNCHANGED <<loading, selectedIds, importResult, nextId, nDirTasks, nDirOps>>

\* delete_email resolved: the store no longer holds the account; loadEmails().
DeleteResolved(t) ==
    /\ dirTasks[t].kind = "handleDelete"
    /\ dirTasks[t].id \in store
    /\ store' = store \ {dirTasks[t].id}
    /\ loading' = TRUE
    /\ loadEmails(DirFinish(t))
    /\ dirOp' = DirOp("DeleteResolved", t, dirTasks[t].id, nDirTasks + 1)
    /\ UNCHANGED <<emails, selectedIds, pageVars, importResult, nextId, nDirOps>>

\* delete_email rejected (the id is unknown, or the store failed): alert.
DeleteRejected(t) ==
    /\ dirTasks[t].kind = "handleDelete"
    /\ dirTasks' = DirFinish(t)
    /\ dirOp' = DirOp("DeleteRejected", t, dirTasks[t].id, 0)
    /\ UNCHANGED <<emails, loading, selectedIds, pageVars, importResult,
                   store, nextId, nDirTasks, nDirOps>>

\* The batch-delete button, enabled while something is selected, confirmed:
\* handleBatchDelete up to the await of its first delete_email.
handleBatchDelete ==
    /\ Len(selectedIds) # 0
    /\ StartDirTask(DirTask("handleBatchDelete", 0, selectedIds, 1))
    /\ dirOp' = DirOp("handleBatchDelete", nDirTasks + 1, selectedIds[1], 0)
    /\ UNCHANGED <<emails, loading, selectedIds, pageVars, importResult,
                   store, nextId>>

\* The loop of handleBatchDelete after the call for ids[next] has settled:
\* the next delete_email, or setSelectedIds([]) and loadEmails().
BatchDeleteContinue(t, name) ==
    LET task == dirTasks[t]
    IN  IF task.next < Len(task.ids)
        THEN /\ dirTasks' = [dirTasks EXCEPT ![t].next = task.next + 1]
             /\ dirOp' = DirOp(name, t, task.ids[task.next], 0)
             /\ UNCHANGED <<loading, selectedIds, nDirTasks>>
        ELSE /\ selectedIds' = <<>>
             /\ loading' = TRUE
             /\ loadEmails(DirFinish(t))
             /\ dirOp' = DirOp(name, t, task.ids[task.next], nDirTasks + 1)

\* delete_email of the batch resolved.
BatchDeleteResolved(t) ==
    /\ dirTasks[t].kind = "handleBatchDelete"
    /\ dirTasks[t].ids[dirTasks[t].next] \in store
    /\ store' = store \ {dirTasks[t].ids[dirTasks[t].next]}
    /\ BatchDeleteContinue(t, "BatchDeleteResolved")
    /\ UNCHANGED <<emails, pageVars, importResult, nextId, nDirOps>>

\* delete_email of the batch rejected with the rejection leaving the handler.
BatchDeleteRejected_Aborts(t) ==
    /\ dirTasks[t].kind = "handleBatchDelete"
    /\ dirTasks' = DirFinish(t)
    /\ dirOp' = DirOp("BatchDeleteRejected", t,
                      dirTasks[t].ids[dirTasks[t].next], 0)
    /\ UNCHANGED <<emails, loading, selectedIds, pageVars, importResult,
                   store, nextId, nDirTasks, nDirOps>>

\* delete_email of the batch rejected: .catch(console.error), the loop goes on.
BatchDeleteRejected(t) ==
    /\ dirTasks[t].kind = "handleBatchDelete"
    /\ BatchDeleteContinue(t, "BatchDeleteRejected")
    /\ UNCHANGED <<emails, pageVars, importResult, store, nextId, nDirOps>>

\* handleBatchImport up to its await (from a file, a drop or the paste box).
handleBatchImport ==
    /\ StartDirTask(DirTask("handleBatchImport", 0, <<>>, 0))
    /\ loading' = TRUE
    /\ importResult' = "null"
    /\ dirOp' = DirOp("handleBatchImport", nDirTasks + 1, 0, 0)
    /\ UNCHANGED <<emails, selectedIds, pageVars, store, nextId>>

\* import_emails resolved with success_count accounts added to the store and
\* failed_count lines refused: setImportResult, loadEmails(), then finally,
\* whose setLoading(false) follows the setLoading(true) of loadEmails.
ImportResolved(t, success_count, failed_count) ==
    /\ dirTasks[t].kind = "handleBatchImport"
    /\ store' = store \cup (nextId..(nextId + success_count - 1))
    /\ nextId' = nextId + success_count
    /\ importResult' = IF failed_count = 0 THEN "success" ELSE "partial"
    /\ loadEmails(DirFinish(t))
    /\ loading' = FALSE
    /\ dirOp' = DirOp("ImportResolved", t, 0, nDirTasks + 1)
    /\ UNCHANGED <<emails, selectedIds, pageVars, nDirOps>>

\* import_emails rejected: the catch block, then finally.
ImportRejected(t) ==
    /\ dirTasks[t].kind = "handleBatchImport"
    /\ importResult' = "failed"
    /\ loading' = FALSE
    /\ dirTasks' = DirFinish(t)
    /\ dirOp' = DirOp("ImportRejected", t, 0, 0)
    /\ UNCHANGED <<emails, selectedIds, pageVars, store, nextId, nDirTasks, nDirOps>>

\* What import_emails answers for the one line of the file: the account is
\* added, or the line is refused (always, once the store has given its ids).
ImportResponses ==
    {[success_count |-> 0, failed_count |-> 1]}
        \cup (IF nextId \in AllAccountIds
              THEN {[success_count |-> 1, failed_count |-> 0]}
              ELSE {})

\* One handler, continuation or store step of the account directory.
DirectoryNext ==
    \/ \E query \in Queries : setSearchQuery(query) /\ DirectoryFrame
    \/ \E size \in PageSizes : setPageSize(size) /\ DirectoryFrame
    \/ PreviousPage /\ DirectoryFrame
    \/ NextPage /\ DirectoryFrame
    \/ \E i \in DOMAIN pageItems : GoToPage(pageItems[i]) /\ DirectoryFrame
    \/ handleSelectAll(~allPageSelected, pageEmailIds) /\ DirectoryFrame
    \/ \E i \in DOMAIN pageEmailIds : toggleSelect(pageEmailIds[i]) /\ DirectoryFrame
    \/ \E i \in DOMAIN pageEmailIds : handleDelete(pageEmailIds[i]) /\ DirectoryFrame
    \/ \E t \in DOMAIN dirTasks : DeleteResolved(t) /\ DirectoryFrame
    \/ \E t \in DOMAIN dirTasks : DeleteRejected(t) /\ DirectoryFrame
    \/ handleBatchDelete /\ DirectoryFrame
    \/ \E t \in DOMAIN dirTasks : BatchDeleteResolved(t) /\ DirectoryFrame
    \/ \E t \in DOMAIN dirTasks : BatchDeleteRejected(t) /\ DirectoryFrame
    \/ handleBatchImport /\ DirectoryFrame
    \/ \E t \in DOMAIN dirTasks : \E response \in ImportResponses :
           ImportResolved(t, response.success_count, response.failed_count)
               /\ DirectoryFrame
    \/ \E t \in DOMAIN dirTasks : ImportRejected(t) /\ DirectoryFrame
    \/ \E t \in DOMAIN dirTasks : ServeGetEmails(t) /\ DirectoryFrame
    \/ \E t \in DOMAIN dirTasks : LoadEmailsResolved(t) /\ DirectoryFrame
    \/ \E t \in DOMAIN dirTasks : LoadEmailsRejected(t) /\ DirectoryFrame

\* The account directory under every interleaving of user events, store steps
\* and settlements of its external calls.
DirectorySpec == Init /\ [][DirectoryNext]_vars

\* ------------------------------------------------- directory properties

\* The last step rendered another list: a reload, a filter or page-size change.
ListRendered == dirOp.op \in {"LoadEmailsResolved", "setSearchQuery", "setPageSize"}

\* C12: totalPages is max(1, ceil(len(filtered)/pageSize)), the least number
\* of pages of pageSize rows that hold the filtered list and at least 1;
\* currentPage is never below 1 and, after every handler and its effects, not
\* above totalPages; and a step that brings totalPages below currentPage,
\* whatever the step, leaves currentPage equal to the new totalPages.
C12_PageWithinRange ==
    /\ [](/\ filteredEmails = filterEmails(emails, searchQuery)
          /\ totalPages >= 1
          /\ Len(filteredEmails) <= totalPages * pageSize
          /\ totalPages > 1 => Len(filteredEmails) > (totalPages - 1) * pageSize
          /\ currentPage >= 1
          /\ currentPage <= totalPages)
    /\ [][totalPages' < currentPage => currentPage' = totalPages']_vars

\* A reload has returned a shorter list and the page found is out of range:
\* the page is the new last page.
C12_Witness ==
    /\ dirOp.op = "LoadEmailsResolved"
    /\ dirOp.page > totalPages
    /\ currentPage = totalPages
    /\ Len(emails) > 0

\* C13: right after a change of the search query or of the page size
\* currentPage is 1; right after a reload, which changes only the number of
\* results, currentPage is the page the reload found unless that page is now
\* above totalPages.
C13_FilterChangeResetsPage ==
    /\ dirOp.op \in {"setSearchQuery", "setPageSize"} => currentPage = 1
    /\ (dirOp.op = "LoadEmailsResolved" /\ dirOp.page <= totalPages) =>
           currentPage = dirOp.page

\* The set of the elements of an array.
SetOf(list) == {list[i] : i \in DOMAIN list}

\* C14: "select all on page" makes the selection the old selection united with
\* the ids of the current page; "deselect all on page" makes it the old
\* selection without the ids of the current page, so that no id of another
\* page changes its membership; a toggle of the row of an account flips the
\* membership of exactly that account's id, an id of the current page, and of
\* no other id.  The selection holds no id twice.
C14_SelectionHelpers ==
    [][/\ dirOp'.op = "selectAll" =>
              SetOf(selectedIds') = SetOf(selectedIds) \cup SetOf(pageEmailIds)
       /\ dirOp'.op = "deselectAll" =>
              SetOf(selectedIds') = SetOf(selectedIds) \ SetOf(pageEmailIds)
       /\ dirOp'.op = "toggleSelect" =>
              /\ dirOp'.id \in SetOf(pageEmailIds)
              /\ SetOf(selectedIds') =
                     IF dirOp'.id \in SetOf(selectedIds)
                     THEN SetOf(selectedIds) \ {dirOp'.id}
                     ELSE SetOf(selectedIds) \cup {dirOp'.id}
       /\ dirOp'.op \in {"selectAll", "deselectAll", "toggleSelect"} =>
              Len(selectedIds') = Cardinality(SetOf(selectedIds'))]_vars

\* A page of two rows has been deselected as a whole and an id of another
\* page is still selected.
C14_Witness ==
    /\ dirOp.op = "deselectAll"
    /\ Len(pageEmailIds) = 2
    /\ selectedIds # <<>>
    /\ SetOf(selectedIds) \cap SetOf(pageEmailIds) = {}

\* C15: a click on "previous", "next" or a page number, a change of the page
\* size and a change of the search query leave the selection as it was.
C15_SelectionSurvivesPaging ==
    [][dirOp'.op \in {"PreviousPage", "NextPage", "GoToPage",
                      "setPageSize", "setSearchQuery"} =>
           selectedIds' = selectedIds]_vars

\* After a click on "previous" an id of a later page is still selected.
C15_Witness ==
    /\ dirOp.op = "PreviousPage"
    /\ \E i \in DOMAIN filteredEmails :
           /\ i > pageStart + pageSize
           /\ includesId(selectedIds, filteredEmails[i].id)

\* C16: right after delete_email has resolved for id x in handleDelete, and
\* right after the last delete_email of a batch delete has resolved for id x,
\* x is not in the selection.
C16_DeleteRemovesFromSelection ==
    /\ dirOp.op = "DeleteResolved" => ~includesId(selectedIds, dirOp.id)
    /\ (dirOp.op = "BatchDeleteResolved" /\ dirOp.started # 0) =>
           ~includesId(selectedIds, dirOp.id)

\* A delete_email call of a batch delete has just settled.
BatchCallSettled == dirOp'.op \in {"BatchDeleteResolved", "BatchDeleteRejected"}

\* C17: handleBatchDelete takes the selected ids as they are at the click and
\* awaits delete_email for the first; whenever a call of the batch settles,
\* resolved or rejected, the handler awaits the call for the next id if there
\* is one, and otherwise ends having started a reload of the account list; it
\* always awaits exactly one call, the one for ids[next].
C17_BatchDeleteAttemptsAll ==
    /\ [][dirOp'.op = "handleBatchDelete" =>
              /\ dirTasks'[dirOp'.task].ids = selectedIds
              /\ dirTasks'[dirOp'.task].next = 1]_vars
    /\ [][BatchCallSettled =>
              LET t == dirOp'.task
              IN  /\ dirOp'.id = dirTasks[t].ids[dirTasks[t].next]
                  /\ IF dirTasks[t].next < Len(dirTasks[t].ids)
                     THEN /\ t \in DOMAIN dirTasks'
                          /\ dirTasks'[t].ids = dirTasks[t].ids
                          /\ dirTasks'[t].next = dirTasks[t].next + 1
                     ELSE /\ t \notin DOMAIN dirTasks'
                          /\ dirOp'.started \in DOMAIN dirTasks' \ DOMAIN dirTasks
                          /\ dirTasks'[dirOp'.started].kind = "loadEmails"]_vars
    /\ [](\A t \in DOMAIN dirTasks :
              dirTasks[t].kind = "handleBatchDelete" =>
                  dirTasks[t].next \in 1..Len(dirTasks[t].ids))

\* The first delete_email of a batch has been rejected and the handler awaits
\* the call for the second id.
C17_Witness ==
    /\ dirOp.op = "BatchDeleteRejected"
    /\ dirOp.task \in DOMAIN dirTasks
    /\ dirTasks[dirOp.task].next = 2
    /\ dirOp.id = dirTasks[dirOp.task].ids[1]

\* The last step ended a handler that changed the store: an import that
\* resolved, a single delete that resolved, or the last call of a batch delete.
MutationCompleted ==
    \/ dirOp.op \in {"ImportResolved", "DeleteResolved"}
    \/ /\ dirOp.op \in {"BatchDeleteResolved", "BatchDeleteRejected"}
       /\ dirOp.task \notin DOMAIN dirTasks

\* C18: the step that completes an import, a successful single delete or a
\* batch delete has started a loadEmails task, which awaits get_emails; the
\* list in memory changes only when a get_emails call resolves, and then it
\* becomes the list that call returned; the handlers that change the store do
\* not change the list in memory themselves.
C18_ReloadAfterMutation ==
    /\ [](MutationCompleted =>
              /\ dirOp.started \in DOMAIN dirTasks
              /\ dirTasks[dirOp.started].kind = "loadEmails")
    /\ [][emails' # emails =>
              /\ dirOp'.op = "LoadEmailsResolved"
              /\ dirTasks[dirOp'.task].served
              /\ emails' = dirTasks[dirOp'.task].snapshot]_vars
    /\ [][store' # store => emails' = emails]_vars

\* An import has added an account to the store; the list in memory still has
\* the two accounts of the last reload, and the reload is under way.
C18_Witness ==
    /\ dirOp.op = "ImportResolved"
    /\ Cardinality(store) = 3
    /\ Len(emails) = 2
    /\ dirOp.started \in DOMAIN dirTasks

\* =========================================================== search filter

\* What is typed into the search box, for the filter alone: nothing, letters
\* of either case, pieces of an address, and text that occurs in the password
\* but in no address.
FilterQueries ==
    { <<>>, <<"a">>, <<"A">>, <<"B">>, <<"a", "b">>, <<"b", "@">>,
      <<"@", "X">>, <<"s">>, <<"p", "a", "s", "s">>, <<"x", "@">> }

\* The account lists of at most MaxFiltered accounts, in any order.
FilterLists ==
    SeqsUpTo({AccountOf(id) : id \in AllAccountIds}, MaxFiltered)

\* const filteredEmails = emails.filter(...)
EvaluateFilter ==
    /\ ~fltResult.done
    /\ fltResult' = Evaluated(filterEmails(fltEmails, fltQuery))
    /\ UNCHANGED <<fltEmails, fltQuery>>

FilterInit ==
    /\ SessionInit
    /\ ClassifierIdle
    /\ WindowIdle
    /\ DirectoryInit
    /\ ToastInit
    /\ FolderViewIdle
    /\ PagingIdle
    /\ DashboardInit
    /\ VersionIdle
    /\ ImportIdle
    /\ ParserIdle
    /\ fltEmails \in FilterLists
    /\ fltQuery \in FilterQueries
    /\ fltResult = NotEvaluated

FilterNext == EvaluateFilter /\ FilterFrame

\* The search filter applied to every list of FilterLists and every query of
\* FilterQueries.
FilterSpec == FilterInit /\ [][FilterNext]_vars

\* c and d are the same letter up to case.
SameLetter(c, d) ==
    \/ c = d
    \/ \E i \in DOMAIN UpperCase : {c, d} = {UpperCase[i], LowerCase[i]}

\* text holds query at some position when letters are compared up to case.
ContainsIgnoringCase(text, query) ==
    \E offset \in 0..(Len(text) - Len(query)) :
        \A k \in 1..Len(query) : SameLetter(text[offset + k], query[k])

\* r is the sub-sequence of list, in order, of the accounts whose address
\* holds query up to case.
IsAddressMatchSubsequence(r, list, query) ==
    LET matching == {i \in DOMAIN list : ContainsIgnoringCase(list[i].email, query)}
    IN  /\ Len(r) = Cardinality(matching)
        /\ \E g \in [DOMAIN r -> matching] :
               /\ \A i, j \in DOMAIN r : i < j => g[i] < g[j]
               /\ \A i \in DOMAIN r : r[i] = list[g[i]]

\* C19: the filtered list is exactly the accounts of the list whose address
\* contains the query as a substring when letters are compared without regard
\* to case, in the order of the list; with the empty query it is the whole
\* list; what the other fields hold does not matter.
C19_FilterByAddress ==
    fltResult.done =>
        /\ IsAddressMatchSubsequence(fltResult.value, fltEmails, fltQuery)
        /\ fltQuery = <<>> => fltResult.value = fltEmails

\* The query "B" applied to the addresses B@x, a@x, Ab@x keeps the first and
\* the third, in that order.
C19_Witness ==
    /\ fltResult.done
    /\ fltQuery = <<"B">>
    /\ fltEmails = <<AccountOf(3), AccountOf(1), AccountOf(2)>>
    /\ fltResult.value = <<AccountOf(3), AccountOf(2)>>

\* ========================================================= toast schedulers

\* A step of a scheduler that shows nothing, cancels nothing and is no timer.
ToastStep(name) == ToastOp(name, "-", 0, 0, 0)

\* A timer set by window.setTimeout.  The browser gives it an id that no
\* other pending timer has; the model takes the number of the show that set it.
Timer(show) == [id |-> show, show |-> show]

\* window.clearTimeout(id) applied to a table of pending timers.
clearTimeout(table, id) == {timer \in table : timer.id # id}

\* The pending timer that `ref` holds, 0 if it holds none that is pending.
PendingIn(table, ref) ==
    IF ref # 0 /\ \E timer \in table : timer.id = ref THEN ref ELSE 0

\* ---------------------------------------------------------------- About

\* showToast without the clearTimeout of the timer in toastTimerRef.
showToast_KeepsTimer(message, duration) ==
    /\ toastMessage' = message
    /\ toastId' = toastId + 1
    /\ IF duration > 0
       THEN /\ timers' = timers \cup {Timer(toastId + 1)}
            /\ toastTimerRef' = Timer(toastId + 1).id
       ELSE /\ timers' = timers
            /\ toastTimerRef' = 0

\* showToast that never installs an auto-dismiss timer.
showToast_NeverDismisses(message, duration) ==
    /\ toastMessage' = message
    /\ toastId' = toastId + 1
    /\ timers' = IF toastTimerRef # 0
                 THEN clearTimeout(timers, toastTimerRef)
                 ELSE timers
    /\ toastTimerRef' = 0

\* showToast that tags a repeated message with the id it already has.
showToast_KeyedByMessage(message, duration) ==
    /\ toastMessage' = message
    /\ toastId' = IF message = toastMessage THEN toastId ELSE toastId + 1
    /\ LET kept == IF toastTimerRef # 0
                   THEN clearTimeout(timers, toastTimerRef)
                   ELSE timers
       IN  IF duration > 0
           THEN /\ timers' = kept \cup {Timer(toastId + 1)}
                /\ toastTimerRef' = Timer(toastId + 1).id
           ELSE /\ timers' = kept
                /\ toastTimerRef' = 0

\* showToast(message, duration) of About; duration 0 sets no timer.
showToast(message, duration) ==
    /\ toastMessage' = message
    /\ toastId' = toastId + 1
    /\ LET kept == IF toastTimerRef # 0
                   THEN clearTimeout(timers, toastTimerRef)
                   ELSE timers
       IN  IF duration > 0
           THEN /\ timers' = kept \cup {Timer(toastId + 1)}
                /\ toastTimerRef' = Timer(toastId + 1).id
           ELSE /\ timers' = kept
                /\ toastTimerRef' = 0

\* The default of showToast's second parameter.
DefaultDuration == 3000

\* A continuation of handleCheckUpdate that ends the handler with one toast:
\* showToast(message, duration), then finally setChecking(false).
CheckEndsWith(name, message, duration) ==
    /\ showToast(message, duration)
    /\ checking' = FALSE
    /\ checkPc' = "idle"
    /\ aboutOp' = ToastOp(name, message, duration,
                          PendingIn(timers, toastTimerRef), 0)
    /\ UNCHANGED version

\* The callback of a timer set by showToast.
TimerFires(timer) ==
    /\ timer \in timers
    /\ timers' = timers \ {timer}
    /\ toastMessage' = "null"
    /\ updateInfo' = "null"
    /\ toastTimerRef' = 0
    /\ aboutOp' = ToastOp("TimerFires", "-", 0, 0, timer.show)
    /\ UNCHANGED <<version, checking, checkPc, toastId>>

\* dismissToast that clears the message and leaves updateInfo.
dismissToast_KeepsPayload ==
    /\ toastMessage # "null"
    /\ timers' = IF toastTimerRef # 0
                 THEN clearTimeout(timers, toastTimerRef)
                 ELSE timers
    /\ toastTimerRef' = 0
    /\ toastMessage' = "null"
    /\ aboutOp' = ToastOp("dismissToast", "-", 0,
                          PendingIn(timers, toastTimerRef), 0)
    /\ UNCHANGED <<version, checking, checkPc, toastId, updateInfo>>

\* The close button of the toast, rendered while toastMessage is set.
dismissToast ==
    /\ toastMessage # "null"
    /\ timers' = IF toastTimerRef # 0
                 THEN clearTimeout(timers, toastTimerRef)
                 ELSE timers
    /\ toastTimerRef' = 0
    /\ toastMessage' = "null"
    /\ updateInfo' = "null"
    /\ aboutOp' = ToastOp("dismissToast", "-", 0,
                          PendingIn(timers, toastTimerRef), 0)
    /\ UNCHANGED <<version, checking, checkPc, toastId>>

\* getVersion() of the mount effect resolved: setVersion.
VersionLoaded ==
    /\ version = "loading"
    /\ version' = "loaded"
    /\ aboutOp' = ToastStep("VersionLoaded")
    /\ UNCHANGED <<checking, checkPc, toastMessage, toastId, toastTimerRef,
                   updateInfo, timers>>

\* The update button, disabled while checking: handleCheckUpdate up to its
\* first await, getVersion() if the version is not loaded, fetch otherwise.
handleCheckUpdate ==
    /\ ~checking
    /\ toastId < MaxShows
    /\ checking' = TRUE
    /\ checkPc' = IF version = "loading" THEN "awaitVersion" ELSE "awaitFetch"
    /\ aboutOp' = ToastStep("handleCheckUpdate")
    /\ UNCHANGED <<version, toastMessage, toastId, toastTimerRef, updateInfo,
                   timers>>

\* A continuation of handleCheckUpdate that goes on to its next await.
CheckGoesOn(name, from, to) ==
    /\ checkPc = from
    /\ checkPc' = to
    /\ aboutOp' = ToastStep(name)
    /\ UNCHANGED <<version, checking, toastMessage, toastId, toastTimerRef,
                   updateInfo, timers>>

\* getVersion() of handleCheckUpdate resolved: fetch is called.
CheckVersionResolved == CheckGoesOn("CheckVersionResolved", "awaitVersion", "awaitFetch")

\* An await of handleCheckUpdate rejected: the catch block, then finally.
CheckFailed(from) ==
    /\ checkPc = from
    /\ CheckEndsWith("CheckFailed", "checkFailed", DefaultDuration)
    /\ UNCHANGED updateInfo

\* fetch resolved with an HTTP status.
FetchResolved(status) ==
    /\ checkPc = "awaitFetch"
    /\ IF status = 200
       THEN CheckGoesOn("FetchResolved", "awaitFetch", "awaitJson")
       ELSE IF status = 404
       THEN /\ CheckEndsWith("FetchResolved", "noRelease", DefaultDuration)
            /\ UNCHANGED updateInfo
       ELSE /\ CheckEndsWith("FetchResolved", "checkFailed", DefaultDuration)
            /\ UNCHANGED updateInfo

\* JsonResolved with the toast of a newer version shown for the default time.
JsonResolved_TimedNewVersion(cmp) ==
    /\ checkPc = "awaitJson"
    /\ IF cmp > 0
       THEN /\ updateInfo' = "release"
            /\ CheckEndsWith("JsonResolved", "newVersion", DefaultDuration)
       ELSE /\ CheckEndsWith("JsonResolved", "upToDate", DefaultDuration)
            /\ UNCHANGED updateInfo

\* response.json() resolved and compareVersions returned cmp.
JsonResolved(cmp) ==
    /\ checkPc = "awaitJson"
    /\ IF cmp > 0
       THEN /\ updateInfo' = "release"
            /\ CheckEndsWith("JsonResolved", "newVersion", 0)
       ELSE /\ CheckEndsWith("JsonResolved", "upToDate", DefaultDuration)
            /\ UNCHANGED updateInfo

\* ------------------------------------------------------- EmailManagement

\* What handleCopyValue is asked to display for the copied field.
CopyLabels == {"email", "password"}

\* The template `${displayValue}已复制`.
CopiedMessage(displayValue) ==
    [email |-> "email copied", password |-> "password copied"][displayValue]

\* showToast(message) of EmailManagement: always a timer of 2000 ms.
showMailToast(message) ==
    /\ mailToastMessage' = message
    /\ mailToastId' = mailToastId + 1
    /\ LET kept == IF mailToastTimerRef # 0
                   THEN clearTimeout(mailTimers, mailToastTimerRef)
                   ELSE mailTimers
       IN  mailTimers' = kept \cup {Timer(mailToastId + 1)}
    /\ mailToastTimerRef' = Timer(mailToastId + 1).id

MailDuration == 2000

\* The callback of a timer set by showToast of EmailManagement.
MailTimerFires(timer) ==
    /\ timer \in mailTimers
    /\ mailTimers' = mailTimers \ {timer}
    /\ mailToastMessage' = "null"
    /\ mailToastTimerRef' = 0
    /\ mailOp' = ToastOp("TimerFires", "-", 0, 0, timer.show)
    /\ UNCHANGED <<mailToastId, copies, nCopies, alerts>>

\* A failed copy handled like a successful one: the toast instead of alert().
CopyRejected_ShowsToast(copy) ==
    /\ copy \in copies
    /\ copies' = copies \ {copy}
    /\ showMailToast(CopiedMessage(copy.displayValue))
    /\ mailOp' = ToastOp("CopyRejected", CopiedMessage(copy.displayValue),
                         MailDuration, PendingIn(mailTimers, mailToastTimerRef), 0)
    /\ UNCHANGED <<nCopies, alerts>>

\* A copy button: handleCopyValue up to its await of writeText, or, where
\* navigator.clipboard is missing, to the return after its alert().
handleCopyValue(displayValue, hasClipboard) ==
    /\ nCopies < MaxShows
    /\ nCopies' = nCopies + 1
    /\ IF hasClipboard
       THEN /\ copies' = copies \cup {[n |-> nCopies + 1,
                                       displayValue |-> displayValue]}
            /\ mailOp' = ToastStep("handleCopyValue")
            /\ UNCHANGED alerts
       ELSE /\ alerts' = alerts + 1
            /\ mailOp' = ToastStep("CopyUnavailable")
            /\ UNCHANGED copies
    /\ UNCHANGED <<mailToastMessage, mailToastId, mailToastTimerRef, mailTimers>>

\* navigator.clipboard.writeText resolved: showToast.
CopyResolved(copy) ==
    /\ copy \in copies
    /\ copies' = copies \ {copy}
    /\ showMailToast(CopiedMessage(copy.displayValue))
    /\ mailOp' = ToastOp("CopyResolved", CopiedMessage(copy.displayValue),
                         MailDuration, PendingIn(mailTimers, mailToastTimerRef), 0)
    /\ UNCHANGED <<nCopies, alerts>>

\* navigator.clipboard.writeText rejected: the catch block logs and alerts.
CopyRejected(copy) ==
    /\ copy \in copies
    /\ copies' = copies \ {copy}
    /\ alerts' = alerts + 1
    /\ mailOp' = ToastStep("CopyRejected")
    /\ UNCHANGED <<mailToastMessage, mailToastId, mailToastTimerRef, mailTimers,
                   nCopies>>

\* ---------------------------------------------------------- specification

AboutFrame == UNCHANGED mailToastVars /\ ToastFrame
MailToastFrame == UNCHANGED aboutVars /\ ToastFrame

\* One handler, continuation or timer callback of About.
AboutNext ==
    \/ VersionLoaded /\ AboutFrame
    \/ handleCheckUpdate /\ AboutFrame
    \/ CheckVersionResolved /\ AboutFrame
    \/ \E from \in {"awaitVersion", "awaitFetch", "awaitJson"} :
           CheckFailed(from) /\ AboutFrame
    \/ \E status \in {200, 404, 500} : FetchResolved(status) /\ AboutFrame
    \/ \E cmp \in {-1, 0, 1} : JsonResolved(cmp) /\ AboutFrame
    \/ \E timer \in timers : TimerFires(timer) /\ AboutFrame
    \/ dismissToast /\ AboutFrame

\* One step of a copy or of the toast timer of EmailManagement.
MailToastNext ==
    \/ \E displayValue \in CopyLabels : \E hasClipboard \in BOOLEAN :
           handleCopyValue(displayValue, hasClipboard) /\ MailToastFrame
    \/ \E copy \in copies : CopyResolved(copy) /\ MailToastFrame
    \/ \E copy \in copies : CopyRejected(copy) /\ MailToastFrame
    \/ \E timer \in mailTimers : MailTimerFires(timer) /\ MailToastFrame

\* One step of one of the two schedulers.
ToastNext == AboutNext \/ MailToastNext

\* The two toast schedulers under every interleaving of their callers, the
\* settlements of the callers' awaits and the timers.
ToastSpec == Init /\ [][ToastNext]_vars

\* The About page alone, with the browser's timers: a timer that stays
\* pending is eventually run.
FairToastSpec ==
    /\ Init
    /\ [][AboutNext]_vars
    /\ WF_vars(\E timer \in timers : TimerFires(timer) /\ AboutFrame)

\* ------------------------------------------------------------- properties

\* The last step of a scheduler called showToast.
Showed(op) == op.message # "-"

\* C20: in each scheduler, right after a show the visible message is the one
\* shown; every pending timer was set by the latest show and is the one the
\* timer reference holds, so at most one timer is pending and a timer set by
\* an earlier show cannot clear a later message; a show cancels the timer that
\* was pending; and after a show with duration 0 no timer is pending at all.
C20_ToastReplacement ==
    /\ Showed(aboutOp) => toastMessage = aboutOp.message
    /\ \A timer \in timers : timer.show = toastId /\ timer.id = toastTimerRef
    /\ Cardinality(timers) <= 1
    /\ (Showed(aboutOp) /\ aboutOp.duration = 0) => timers = {}
    /\ aboutOp.fired # 0 => aboutOp.fired = toastId
    /\ Showed(mailOp) => mailToastMessage = mailOp.message
    /\ \A timer \in mailTimers :
           timer.show = mailToastId /\ timer.id = mailToastTimerRef
    /\ Cardinality(mailTimers) <= 1
    /\ mailOp.fired # 0 => mailOp.fired = mailToastId

\* A message with a timer was visible when the persistent "new version"
\* message was shown: the timer was cancelled, only the new message is
\* visible and no timer is pending.
C20_Witness ==
    /\ aboutOp.op = "JsonResolved"
    /\ aboutOp.duration = 0
    /\ aboutOp.cancelled # 0
    /\ toastMessage = "newVersion"
    /\ timers = {}

\* The last step of About was showToast with a positive duration.
ShowedTimed == Showed(aboutOp) /\ aboutOp.duration > 0

\* The last step of About was showToast with duration 0.
ShowedPersistent == aboutOp.op # "mount" /\ Showed(aboutOp) /\ aboutOp.duration = 0

\* C21: a show with a positive duration leaves exactly one auto-dismiss timer
\* pending, and the message of that show is eventually cleared unless a later
\* show replaces it or it is dismissed first; a show with duration 0 leaves no
\* timer pending, and while no timer is pending a visible message is cleared
\* by nothing but an explicit dismiss (a later show replaces it).
C21_AutoDismiss ==
    /\ [](ShowedTimed => Cardinality(timers) = 1)
    /\ [](ShowedPersistent => timers = {} /\ toastTimerRef = 0)
    /\ [][(toastMessage # "null" /\ timers = {} /\ toastMessage' = "null")
              => aboutOp'.op = "dismissToast"]_vars
    /\ \A n \in 1..MaxShows :
           (ShowedTimed /\ toastId = n)
               ~> (toastId # n \/ toastMessage = "null")

\* The timer of the message on display ran and cleared it.
C21_Witness ==
    /\ aboutOp.op = "TimerFires"
    /\ aboutOp.fired = toastId
    /\ toastMessage = "null"
    /\ timers = {}

\* This step of About, respectively of EmailManagement, called showToast.
AboutShows == aboutOp' # aboutOp /\ Showed(aboutOp')
MailShows == mailOp' # mailOp /\ Showed(mailOp')

\* C22: in each scheduler the sequence id grows by exactly one in every step
\* that calls showToast, whatever the message and also when it is the message
\* already on display, and no other step (a dismissal, a timer callback, any
\* other handler) changes it; so it never decreases and is never reset.
C22_SequenceIdGrows ==
    [][/\ AboutShows => toastId' = toastId + 1
       /\ ~AboutShows => toastId' = toastId
       /\ MailShows => mailToastId' = mailToastId + 1
       /\ ~MailShows => mailToastId' = mailToastId]_vars

\* The third show of About, with the failure message, replaced a message
\* whose timer was still pending, and carries the id 3.
C22_Witness ==
    /\ aboutOp.op = "CheckFailed"
    /\ aboutOp.cancelled = 2
    /\ toastId = 3
    /\ toastMessage = "checkFailed"

\* C23: the message of About is never cleared while updateInfo is still set;
\* the step that clears the message, dismissToast or a timer callback, leaves
\* updateInfo cleared, no timer pending and the timer reference empty.
C23_DismissalClearsPayload ==
    /\ [](toastMessage = "null" => updateInfo = "null")
    /\ [](aboutOp.op \in {"dismissToast", "TimerFires"}
              => /\ toastMessage = "null"
                 /\ updateInfo = "null"
                 /\ timers = {}
                 /\ toastTimerRef = 0)
    /\ [][(toastMessage # "null" /\ toastMessage' = "null")
              => /\ aboutOp'.op \in {"dismissToast", "TimerFires"}
                 /\ updateInfo' = "null"]_vars

\* The only show so far set no timer, so it was the persistent "new version"
\* message with its download link, and dismissToast has just cleared both.
C23_Witness ==
    /\ aboutOp.op = "dismissToast"
    /\ aboutOp.cancelled = 0
    /\ toastId = 1
    /\ toastMessage = "null"
    /\ updateInfo = "null"

\* This step of handleCopyValue called alert().
CopyAlerts == alerts' # alerts

\* This step settled a pending writeText.
CopySettles == copies' # copies /\ copies' \subseteq copies

\* C27: a copy that meets an environment error, a missing clipboard or a
\* rejected write, raises one blocking notice and nothing else: the toast
\* (message, id, timer), the selection, the account list, the session and
\* the other pending copies are as before; a settled write either shows the
\* success toast or raises the notice, never both, and the toast of the
\* account page is shown by nothing but a write that succeeded.
C27_CopyErrorIsContained ==
    [][/\ CopyAlerts =>
              /\ alerts' = alerts + 1
              /\ mailOp'.op \in {"CopyRejected", "CopyUnavailable"}
              /\ UNCHANGED <<mailToastMessage, mailToastId, mailToastTimerRef,
                             mailTimers>>
              /\ UNCHANGED <<selectedIds, emails, sessionVars>>
              /\ copies' \subseteq copies
              /\ Cardinality(copies \ copies') <= 1
       /\ CopySettles => (CopyAlerts # MailShows)
       /\ MailShows => mailOp'.op = "CopyResolved" /\ ~CopyAlerts]_vars

\* A write was rejected while the toast of an earlier copy was on display and
\* another copy was still waiting: the notice was raised, the toast and the
\* waiting copy are still there.
C27_Witness ==
    /\ mailOp.op = "CopyRejected"
    /\ alerts = 1
    /\ mailToastMessage # "null"
    /\ mailTimers # {}
    /\ copies # {}

\* ---------------------------------------------------------- record parser

Newline == "\n"

\* The separator an import uses unless another is given.
DefaultSeparator == <<"-", "-", "-", "-">>

Separators == {DefaultSeparator, <<";">>}

\* s.split(sep) for a non-empty sep: the pieces between the occurrences of
\* sep, found from the left; `field` is the piece being read.
RECURSIVE splitFrom(_, _, _)
splitFrom(s, sep, field) ==
    IF s = <<>>
    THEN <<field>>
    ELSE IF Len(s) >= Len(sep) /\ SubSeq(s, 1, Len(sep)) = sep
         THEN <<field>> \o splitFrom(SubSeq(s, Len(sep) + 1, Len(s)), sep, <<>>)
         ELSE splitFrom(Tail(s), sep, Append(field, Head(s)))

split(s, sep) == splitFrom(s, sep, <<>>)

\* parts.join(sep)
RECURSIVE join(_, _)
join(parts, sep) ==
    IF parts = <<>>
    THEN <<>>
    ELSE IF Len(parts) = 1
         THEN parts[1]
         ELSE parts[1] \o sep \o join(Tail(parts), sep)

DigitChars == <<"0", "1", "2", "3", "4", "5", "6", "7", "8", "9">>

\* The decimal numeral of a natural number.
RECURSIVE FormatNumber(_)
FormatNumber(n) ==
    IF n < 10
    THEN <<DigitChars[n + 1]>>
    ELSE Append(FormatNumber(n \div 10), DigitChars[(n % 10) + 1])

\* The diagnostic "<line-number>: <raw line>".
Diagnostic(n, line) == FormatNumber(n) \o <<":", " ">> \o line

\* The account a valid line yields: its first four fields, by position.
Candidate(fields) ==
    [address |-> fields[1], secret |-> fields[2], clientId |-> fields[3],
     refreshToken |-> fields[4]]

EmptyOutcome ==
    [successCount |-> 0, failedCount |-> 0, diagnostics |-> <<>>, accounts |-> <<>>]

\* A line passes with four fields or more, whatever is in them.
ValidFields_CountOnly(fields) == Len(fields) >= 4

\* A line passes with at least four fields, the first four of them not empty
\* after trimming.
ValidFields(fields) ==
    /\ Len(fields) >= 4
    /\ \A k \in 1..4 : trim(fields[k]) # <<>>

\* The parser giving up at the first line that fails.
RECURSIVE parseLines_StopsAtFailure(_, _, _, _)
parseLines_StopsAtFailure(lines, n, sep, outcome) ==
    IF n > Len(lines)
    THEN outcome
    ELSE LET line   == trim(lines[n])
             fields == split(line, sep)
         IN  IF line = <<>>
             THEN parseLines_StopsAtFailure(lines, n + 1, sep, outcome)
             ELSE IF ValidFields(fields)
             THEN parseLines_StopsAtFailure(lines, n + 1, sep,
                      [outcome EXCEPT !.successCount = @ + 1,
                                      !.accounts = Append(@, Candidate(fields))])
             ELSE [outcome EXCEPT !.failedCount = @ + 1,
                                  !.diagnostics = Append(@, Diagnostic(n, lines[n]))]

\* The lines from the n-th on, one after the other: a line that is empty
\* after trimming is skipped, a valid line adds an account, any other line
\* adds a diagnostic, and the next line is read in each case.
RECURSIVE parseLines(_, _, _, _)
parseLines(lines, n, sep, outcome) ==
    IF n > Len(lines)
    THEN outcome
    ELSE LET line   == trim(lines[n])
             fields == split(line, sep)
         IN  IF line = <<>>
             THEN parseLines(lines, n + 1, sep, outcome)
             ELSE IF ValidFields(fields)
             THEN parseLines(lines, n + 1, sep,
                      [outcome EXCEPT !.successCount = @ + 1,
                                      !.accounts = Append(@, Candidate(fields))])
             ELSE parseLines(lines, n + 1, sep,
                      [outcome EXCEPT !.failedCount = @ + 1,
                                      !.diagnostics = Append(@, Diagnostic(n, lines[n]))])

\* parseBatch with the parser that gives up at the first failure.
parseBatch_StopsAtFailure(rawText, sep) ==
    parseLines_StopsAtFailure(split(rawText, <<Newline>>), 1, sep,
                              EmptyOutcome)

\* parseBatch(rawText, separator)
parseBatch(rawText, sep) ==
    parseLines(split(rawText, <<Newline>>), 1, sep, EmptyOutcome)

\* The lines texts are written from, as lists of fields: a full line, one
\* with a fifth field, one of another account, lines of two and three
\* fields, lines with a blank first, second, fourth or fifth field, a line
\* of white space and an empty line.
ImportLines ==
    { <<<<"a">>, <<"p">>, <<"c">>, <<"r">>>>,
      <<<<"a">>, <<"p">>, <<"c">>, <<"r">>, <<"x">>>>,
      <<<<"b">>, <<"q">>, <<"c">>, <<"r">>>>,
      <<<<"a">>, <<"p">>>>,
      <<<<"a">>, <<"p">>, <<"c">>>>,
      <<<<" ">>, <<"p">>, <<"c">>, <<"r">>>>,
      <<<<"a">>, <<" ">>, <<"c">>, <<"r">>>>,
      <<<<"a">>, <<"p">>, <<"c">>, <<" ">>>>,
      <<<<"a">>, <<"p">>, <<"c">>, <<"r">>, <<" ">>>>,
      <<<<" ">>>>,
      <<<<>>>> }

\* The text of the given lines, their fields joined by sep.
WriteText(lines, sep) ==
    join([i \in DOMAIN lines |-> join(lines[i], sep)], <<Newline>>)

\* One call of parseBatch.
EvaluateParseBatch ==
    /\ ~prsOutcome.done
    /\ prsOutcome' = Evaluated(parseBatch(WriteText(prsLines, prsWritten),
                                          prsSeparator))
    /\ UNCHANGED <<prsLines, prsWritten, prsSeparator>>

\* Every text of at most MaxLines lines, written with either separator and
\* parsed with either.
ParserInit ==
    /\ prsLines \in SeqsUpTo(ImportLines, MaxLines)
    /\ prsWritten \in Separators
    /\ prsSeparator \in Separators
    /\ prsOutcome = NotEvaluated
    /\ SessionInit
    /\ ClassifierIdle
    /\ WindowIdle
    /\ DirectoryInit
    /\ FilterIdle
    /\ ToastInit
    /\ FolderViewIdle
    /\ PagingIdle
    /\ DashboardInit
    /\ VersionIdle
    /\ ImportIdle

ParserNext == EvaluateParseBatch /\ ParserFrame

ParserSpec == ParserInit /\ [][ParserNext]_vars

\* ------------------------------------------------------ parser properties

\* A character sequence with something other than white space in it.
HasText(s) == \E k \in DOMAIN s : s[k] # " "

WrittenLine(i) == join(prsLines[i], prsWritten)

NonBlankLines == {i \in DOMAIN prsLines : HasText(WrittenLine(i))}

\* The diagnostic d starts with the number i, a colon and a space.
CitesLine(d, i) ==
    /\ Len(d) >= Len(FormatNumber(i)) + 2
    /\ SubSeq(d, 1, Len(FormatNumber(i)) + 2) = FormatNumber(i) \o <<":", " ">>

\* C24: whatever the text and the separator, parseBatch reads every line: the
\* successes and the failures together are as many as the lines that are not
\* blank, each count is the length of its list, no blank line is cited by a
\* diagnostic and no line is cited twice.
C24_EveryLineCounted ==
    prsOutcome.done =>
        LET outcome == prsOutcome.value
        IN  /\ outcome.successCount + outcome.failedCount
                   = Cardinality(NonBlankLines)
            /\ Len(outcome.accounts) = outcome.successCount
            /\ Len(outcome.diagnostics) = outcome.failedCount
            /\ \A j \in DOMAIN outcome.diagnostics :
                   \E i \in NonBlankLines : CitesLine(outcome.diagnostics[j], i)
            /\ \A i \in DOMAIN prsLines :
                   Cardinality({j \in DOMAIN outcome.diagnostics :
                                   CitesLine(outcome.diagnostics[j], i)}) <= 1

\* A failing first line, then a valid line: one failure and one success.
C24_Witness ==
    /\ prsOutcome.done
    /\ prsLines = <<<<<<"a">>, <<"p">>, <<"c">>>>,
                    <<<<"b">>, <<"q">>, <<"c">>, <<"r">>>>>>
    /\ prsWritten = <<";">>
    /\ prsSeparator = <<";">>
    /\ prsOutcome.value.failedCount = 1
    /\ prsOutcome.value.successCount = 1

\* The fields a line was written from make a valid line.
WrittenValid(fields) ==
    /\ Len(fields) >= 4
    /\ \A k \in 1..4 : HasText(fields[k])

LineNumbers == [i \in DOMAIN prsLines |-> i]

ValidLineNumbers ==
    SelectSeq(LineNumbers, LAMBDA i : WrittenValid(prsLines[i]))

InvalidLineNumbers ==
    SelectSeq(LineNumbers,
              LAMBDA i : i \in NonBlankLines /\ ~WrittenValid(prsLines[i]))

\* C25: parsed with the separator it was written with, a text gives one
\* account for each line written from four or more fields whose first four
\* are not blank, made of those four fields in their order, and one
\* diagnostic "<number>: <line>" for each other non-blank line, both in the
\* order of the lines; parsed with another separator, every non-blank line
\* is one field and fails.
C25_LineValidity ==
    prsOutcome.done =>
        LET outcome == prsOutcome.value
        IN  IF prsWritten = prsSeparator
            THEN /\ outcome.accounts =
                        [j \in DOMAIN ValidLineNumbers |->
                            Candidate(prsLines[ValidLineNumbers[j]])]
                 /\ outcome.diagnostics =
                        [j \in DOMAIN InvalidLineNumbers |->
                            Diagnostic(InvalidLineNumbers[j],
                                       WrittenLine(InvalidLineNumbers[j]))]
            ELSE /\ outcome.accounts = <<>>
                 /\ outcome.failedCount = Cardinality(NonBlankLines)

\* "a----p" and "a----p----c----r" with the separator "----": a diagnostic
\* citing line 1 and the account (a, p, c, r).
C25_Witness ==
    /\ prsOutcome.done
    /\ prsLines = <<<<<<"a">>, <<"p">>>>,
                    <<<<"a">>, <<"p">>, <<"c">>, <<"r">>>>>>
    /\ prsWritten = DefaultSeparator
    /\ prsSeparator = DefaultSeparator
    /\ prsOutcome.value.diagnostics =
           <<<<"1", ":", " ", "a", "-", "-", "-", "-", "p">>>>
    /\ prsOutcome.value.accounts =
           <<[address |-> <<"a">>, secret |-> <<"p">>, clientId |-> <<"c">>,
              refreshToken |-> <<"r">>]>>

\* ------------------------------------------------------------ batch import

\* The texts handed to handleBatchImport: a full line, and a short line
\* followed by a full line, written with either separator.
ImportContents ==
    {WriteText(lines, sep) :
        lines \in { <<<<<<"a">>, <<"p">>, <<"c">>, <<"r">>>>>>,
                    <<<<<<"a">>, <<"p">>>>,
                      <<<<"b">>, <<"q">>, <<"c">>, <<"r">>>>>> },
        sep \in Separators}

\* The separator box: onChange={(e) => setSeparator(e.target.value)}.
setSeparator(value) ==
    /\ separator' = value
    /\ UNCHANGED <<impCalls, impDone, directoryVars>>

\* The payload of invoke('import_emails', { input: content }).
ImportArgs(content) == [input |-> content]

\* import_emails: the text of the call is parsed with the separator the
\* call carries, or with the default separator if it carries none.
import_emails(args) ==
    LET outcome == parseBatch(args.input,
                              IF "separator" \in DOMAIN args
                              THEN args.separator
                              ELSE DefaultSeparator)
    IN  [success_count |-> outcome.successCount,
         failed_count |-> outcome.failedCount,
         failed_lines |-> outcome.diagnostics,
         accounts |-> outcome.accounts]

\* handleBatchImport(content) up to its await.
BatchImportCalled(content) ==
    /\ handleBatchImport
    /\ impCalls' = (nDirTasks + 1 :> [args |-> ImportArgs(content),
                                      separator |-> separator]) @@ impCalls
    /\ UNCHANGED <<separator, impDone>>

\* import_emails resolved with what the parser made of the text.
BatchImportResolved(t) ==
    /\ t \in DOMAIN impCalls
    /\ t \notin DOMAIN impDone
    /\ LET response == import_emails(impCalls[t].args)
       IN  /\ ImportResolved(t, response.success_count, response.failed_count)
           /\ impDone' = (t :> response) @@ impDone
    /\ UNCHANGED <<separator, impCalls>>

\* One step of an import, of the separator box or of a reload of the list.
ImportNext ==
    \/ \E value \in Separators : setSeparator(value) /\ ImportFrame
    \/ \E content \in ImportContents : BatchImportCalled(content) /\ ImportFrame
    \/ \E t \in DOMAIN dirTasks : BatchImportResolved(t) /\ ImportFrame
    \/ \E t \in DOMAIN dirTasks :
           ImportRejected(t) /\ UNCHANGED importVars /\ ImportFrame
    \/ \E t \in DOMAIN dirTasks :
           ServeGetEmails(t) /\ UNCHANGED importVars /\ ImportFrame
    \/ \E t \in DOMAIN dirTasks :
           LoadEmailsResolved(t) /\ UNCHANGED importVars /\ ImportFrame
    \/ \E t \in DOMAIN dirTasks :
           LoadEmailsRejected(t) /\ UNCHANGED importVars /\ ImportFrame

\* Imports of texts under every setting of the separator box.
ImportSpec == Init /\ [][ImportNext]_vars

\* C26: every import is split with the separator that was set in the
\* separator box when it was started: what import_emails answers is what
\* parseBatch makes of the text with that separator.
C26_SeparatorApplied ==
    \A t \in DOMAIN impDone :
        LET outcome == parseBatch(impCalls[t].args.input, impCalls[t].separator)
        IN  /\ impDone[t].success_count = outcome.successCount
            /\ impDone[t].failed_count = outcome.failedCount
            /\ impDone[t].accounts = outcome.accounts

\* ----------------------------------------------------------- update check

IsDigit(c) == \E d \in DOMAIN DigitChars : DigitChars[d] = c

DigitValue(c) == (CHOOSE d \in DOMAIN DigitChars : DigitChars[d] = c) - 1

\* The digits s starts with.
RECURSIVE leadingDigits(_)
leadingDigits(s) ==
    IF s # <<>> /\ IsDigit(Head(s))
    THEN <<Head(s)>> \o leadingDigits(Tail(s))
    ELSE <<>>

\* The number a sequence of digits denotes, after the digits read as `acc`.
RECURSIVE digitsValue(_, _)
digitsValue(digits, acc) ==
    IF digits = <<>>
    THEN acc
    ELSE digitsValue(Tail(digits), 10 * acc + DigitValue(Head(digits)))

NaN == [nan |-> TRUE, value |-> 0]
Number(n) == [nan |-> FALSE, value |-> n]

\* parseInt(s, 10): white space, a sign and the digits that follow are read,
\* the rest is ignored; NaN if there is no digit.
parseInt(s) ==
    LET t        == trimStart(s)
        signed   == t # <<>> /\ Head(t) \in {"-", "+"}
        negative == t # <<>> /\ Head(t) = "-"
        digits   == leadingDigits(IF signed THEN Tail(t) ELSE t)
    IN  IF digits = <<>>
        THEN NaN
        ELSE Number(IF negative THEN 0 - digitsValue(digits, 0)
                    ELSE digitsValue(digits, 0))

\* x || 0 for x a number or NaN.
OrZero(x) == IF x.nan \/ x.value = 0 THEN 0 ELSE x.value

\* v.replace(/^v/, '')
stripV(v) == IF v # <<>> /\ Head(v) = "v" THEN Tail(v) ELSE v

\* normalize of compareVersions
normalize(v) ==
    LET pieces == split(stripV(v), <<".">>)
    IN  [i \in DOMAIN pieces |-> OrZero(parseInt(pieces[i]))]

\* array[i] || 0 for a 1-based index i.
At(array, i) == IF i \in DOMAIN array THEN array[i] ELSE 0

\* The loop of compareVersions from the i-th component on.
RECURSIVE compareFrom(_, _, _, _)
compareFrom(curr, lat, i, length) ==
    IF i > length
    THEN 0
    ELSE IF At(lat, i) > At(curr, i) THEN 1
    ELSE IF At(lat, i) < At(curr, i) THEN -1
    ELSE compareFrom(curr, lat, i + 1, length)

\* compareVersions with the loop bounded by the shorter version.
compareVersions_ShorterLength(current, latest) ==
    LET curr == normalize(current)
        lat  == normalize(latest)
    IN  compareFrom(curr, lat, 1, min(Len(curr), Len(lat)))

\* compareVersions(current, latest) of updateChecker.ts and of About.tsx
compareVersions(current, latest) ==
    LET curr == normalize(current)
        lat  == normalize(latest)
    IN  compareFrom(curr, lat, 1, max(Len(curr), Len(lat)))

\* UpdateInfo
UpdateInfo(latestVersion, downloadUrl) ==
    [found |-> TRUE, version |-> latestVersion, downloadUrl |-> downloadUrl]

\* How the awaited calls of one checkForUpdate settle: getVersion rejects,
\* fetch rejects, the response is not OK, response.json() rejects, or all
\* three resolve.
CheckEnvs == {"versionRejected", "fetchRejected", "notOk", "jsonRejected", "ok"}

\* html_url of the release with the given tag.
ReleaseUrl(tag) == <<"u", "r", "l", "/">> \o tag

GitHubRelease(tag) == [tag_name |-> tag, html_url |-> ReleaseUrl(tag)]

\* checkForUpdate() as a compare that reports every difference as newer.
checkForUpdate_AnyDifference(env, currentVersion, release) ==
    IF env # "ok"
    THEN [threw |-> FALSE, value |-> NoUpdateInfo]
    ELSE IF compareVersions(currentVersion, release.tag_name) # 0
         THEN [threw |-> FALSE,
               value |-> UpdateInfo(release.tag_name, release.html_url)]
         ELSE [threw |-> FALSE, value |-> NoUpdateInfo]

\* checkForUpdate(): what its promise settles with when the awaited calls
\* settle as env says, getVersion with currentVersion and json with release.
\* Every rejection is caught and answered with null, so is a response that
\* is not OK.
checkForUpdate(env, currentVersion, release) ==
    IF env # "ok"
    THEN [threw |-> FALSE, value |-> NoUpdateInfo]
    ELSE IF compareVersions(currentVersion, release.tag_name) > 0
         THEN [threw |-> FALSE,
               value |-> UpdateInfo(release.tag_name, release.html_url)]
         ELSE [threw |-> FALSE, value |-> NoUpdateInfo]

\* ----------------------------------------------------------- Dashboard

\* The versions getVersion() and the latest release may name.
DashVersions ==
    { <<"v", "2">>, <<"2", ".", "0">>, <<"2", ".", "1", "0">> }

\* The update effect without the hasCheckedUpdate guard.
CheckUpdateEffect_Unguarded ==
    /\ nEffects < MaxEffectRuns
    /\ nEffects' = nEffects + 1
    /\ hasCheckedUpdate' = TRUE
    /\ updPending' = TRUE
    /\ nUpdChecks' = nUpdChecks + 1
    /\ dashOp' = "CheckUpdateEffect"
    /\ UNCHANGED <<dashUpdateInfo, showUpdateToast, updReport>>

\* The update effect of the Dashboard (on mount, and once more where the
\* effects of a mount are run twice): nothing if hasCheckedUpdate is set,
\* else the flag is set and checkForUpdate() is called.
CheckUpdateEffect ==
    /\ nEffects < MaxEffectRuns
    /\ nEffects' = nEffects + 1
    /\ IF hasCheckedUpdate
       THEN UNCHANGED <<hasCheckedUpdate, updPending, nUpdChecks>>
       ELSE /\ hasCheckedUpdate' = TRUE
            /\ updPending' = TRUE
            /\ nUpdChecks' = nUpdChecks + 1
    /\ dashOp' = "CheckUpdateEffect"
    /\ UNCHANGED <<dashUpdateInfo, showUpdateToast, updReport>>

\* checkForUpdate() settled and its then-callback ran: with an UpdateInfo,
\* setUpdateInfo(info) and setShowUpdateToast(true); with null, nothing.
CheckForUpdateSettled(env, currentVersion, release) ==
    /\ updPending
    /\ updPending' = FALSE
    /\ LET info == checkForUpdate(env, currentVersion, release).value
       IN  /\ IF info.found
              THEN /\ dashUpdateInfo' = info
                   /\ showUpdateToast' = TRUE
              ELSE UNCHANGED <<dashUpdateInfo, showUpdateToast>>
           /\ updReport' = [settled |-> TRUE, env |-> env,
                            current |-> currentVersion,
                            latest |-> release.tag_name, info |-> info]
    /\ dashOp' = "CheckForUpdateSettled"
    /\ UNCHANGED <<hasCheckedUpdate, nUpdChecks, nEffects>>

\* The update toast is rendered.
UpdateToastVisible == showUpdateToast /\ dashUpdateInfo.found

\* The close button of the update toast.
dismissUpdateToast ==
    /\ UpdateToastVisible
    /\ showUpdateToast' = FALSE
    /\ dashOp' = "dismissUpdateToast"
    /\ UNCHANGED <<dashUpdateInfo, hasCheckedUpdate, updPending, nUpdChecks,
                   nEffects, updReport>>

DashboardNext ==
    \/ CheckUpdateEffect /\ DashboardFrame
    \/ \E env \in CheckEnvs : \E currentVersion \in DashVersions :
       \E tag \in DashVersions :
           CheckForUpdateSettled(env, currentVersion, GitHubRelease(tag))
               /\ DashboardFrame
    \/ dismissUpdateToast /\ DashboardFrame

\* The update check of the Dashboard from its construction on.
DashboardSpec == Init /\ [][DashboardNext]_vars

\* C28: checkForUpdate() is called at most once however often the effect
\* runs; the update toast is on display only after that check has answered
\* with a release greater than the running version, and then with that
\* release's version and link; it appears in the step in which the check
\* answers so, never after a check that failed or found nothing newer, and
\* once on display it goes away by nothing but its close button.
C28_StartupUpdateToast ==
    /\ [](nUpdChecks <= 1)
    /\ [](UpdateToastVisible =>
              /\ updReport.settled
              /\ updReport.env = "ok"
              /\ updReport.info = dashUpdateInfo
              /\ dashUpdateInfo.version = updReport.latest
              /\ compareVersions(updReport.current, dashUpdateInfo.version) = 1
              /\ dashUpdateInfo.downloadUrl = ReleaseUrl(dashUpdateInfo.version))
    /\ []((updReport.settled /\ ~updReport.info.found) => ~UpdateToastVisible)
    /\ []((dashOp = "CheckForUpdateSettled" /\ updReport.info.found)
              => UpdateToastVisible)
    /\ [][(UpdateToastVisible /\ ~UpdateToastVisible')
              => dashOp' = "dismissUpdateToast"]_vars
    /\ [][(~UpdateToastVisible /\ UpdateToastVisible')
              => dashOp' = "CheckForUpdateSettled"]_vars

\* The effect has run twice, the one check has found "2.10" from "v2", and
\* the toast is on display with that version.
C28_Witness ==
    /\ nEffects = 2
    /\ nUpdChecks = 1
    /\ UpdateToastVisible
    /\ updReport.current = <<"v", "2">>
    /\ dashUpdateInfo.version = <<"2", ".", "1", "0">>

\* The components versions are written from, with the number each stands
\* for: plain numbers, one of them of two digits, and a word.
Components ==
    { [text |-> <<"0">>, value |-> 0],
      [text |-> <<"2">>, value |-> 2],
      [text |-> <<"1", "0">>, value |-> 10],
      [text |-> <<"b">>, value |-> 0] }

VersionShapes ==
    {[v |-> v, parts |-> parts] :
        v \in BOOLEAN,
        parts \in SeqsUpTo(Components, MaxComponents) \ {<<>>}}

\* The version string: "v" or not, then the components joined by dots.
WriteVersion(shape) ==
    (IF shape.v THEN <<"v">> ELSE <<>>)
        \o join([i \in DOMAIN shape.parts |-> shape.parts[i].text], <<".">>)

\* One evaluation: compareVersions both ways round, and checkForUpdate.
EvaluateVersions ==
    /\ ~cmpResult.done
    /\ cmpResult' = Evaluated(
           [forward  |-> compareVersions(WriteVersion(cmpCurrent),
                                         WriteVersion(cmpLatest)),
            backward |-> compareVersions(WriteVersion(cmpLatest),
                                         WriteVersion(cmpCurrent)),
            checked  |-> checkForUpdate(cmpEnv, WriteVersion(cmpCurrent),
                                        GitHubRelease(WriteVersion(cmpLatest)))])
    /\ UNCHANGED <<cmpCurrent, cmpLatest, cmpEnv>>

VersionInit ==
    /\ cmpCurrent \in VersionShapes
    /\ cmpLatest \in VersionShapes
    /\ cmpEnv \in CheckEnvs
    /\ cmpResult = NotEvaluated
    /\ SessionInit
    /\ ClassifierIdle
    /\ WindowIdle
    /\ DirectoryInit
    /\ FilterIdle
    /\ ToastInit
    /\ FolderViewIdle
    /\ PagingIdle
    /\ DashboardInit
    /\ ParserIdle
    /\ ImportIdle

VersionNext == EvaluateVersions /\ VersionFrame

VersionSpec == VersionInit /\ [][VersionNext]_vars

\* The number the i-th component of a written version stands for; 0 if the
\* version has no i-th component.
PartValue(shape, i) ==
    IF i \in DOMAIN shape.parts THEN shape.parts[i].value ELSE 0

\* The places where the two versions differ.
Differing ==
    {i \in 1..MaxComponents : PartValue(cmpCurrent, i) # PartValue(cmpLatest, i)}

\* 1 if latest is the greater at the first place where they differ, -1 if
\* current is, 0 if they differ nowhere.
Order ==
    IF Differing = {}
    THEN 0
    ELSE LET first == CHOOSE i \in Differing : \A j \in Differing : i <= j
         IN  IF PartValue(cmpLatest, first) > PartValue(cmpCurrent, first)
             THEN 1 ELSE -1

\* C29: compareVersions orders two versions by the numbers of their
\* components from the left, with or without a leading "v", a missing
\* component or a word counting as 0; the reversed call returns the
\* negated result; checkForUpdate never throws, and answers with the
\* release's version and link exactly when every awaited call succeeded
\* with an OK response and the release is the greater version.
C29_VersionOrder ==
    cmpResult.done =>
        LET result == cmpResult.value
        IN  /\ result.forward = Order
            /\ result.backward = 0 - result.forward
            /\ ~result.checked.threw
            /\ result.checked.value.found <=> (cmpEnv = "ok" /\ Order = 1)
            /\ result.checked.value.found =>
                   /\ result.checked.value.version = WriteVersion(cmpLatest)
                   /\ result.checked.value.downloadUrl
                          = ReleaseUrl(WriteVersion(cmpLatest))

\* "v2" against "2.10": the missing component counts as 0, latest is greater
\* and checkForUpdate answers with the release.
C29_Witness ==
    /\ cmpResult.done
    /\ cmpEnv = "ok"
    /\ WriteVersion(cmpCurrent) = <<"v", "2">>
    /\ WriteVersion(cmpLatest) = <<"2", ".", "1", "0">>
    /\ cmpResult.value.forward = 1
    /\ cmpResult.value.backward = -1
    /\ cmpResult.value.checked.value.found

\* ------------------------------------------------------- closed session

\* C30: while the mailbox viewer is closed the record list of the session
\* is empty; a sync or a load that completes after the close puts nothing
\* back into it.
C30_ClosedSessionIsEmpty ==
    ~mailViewerOpen => mailViewerRecords = <<>>

\* ------------------------------------------------- loading of the session

\* The open that made the current session: handleOpenMailbox numbers its
\* invocations, and the viewer shows the account and folder of the last one.
ActiveOpen == nOpens

\* The sync or the load of the active open has not completed yet.
ActiveOpenPending == ActiveOpen \in DOMAIN tasks

\* C31: while a mailbox is open and the sync or the load of the open that
\* made the current session is still pending, loading is true; loading =
\* false is reached only by the completion of that open's load step, never
\* by the completion of an earlier open arriving in between.
C31_LoadingUntilActiveLoadEnds ==
    (mailViewerOpen /\ ActiveOpenPending) => mailViewerLoading

\* ------------------------------------------- account list and the store

\* The directory with a store that answers every call: imports, single and
\* batch deletes (of the rows selected before) and reloads are issued and
\* resolve in every order, and no call is rejected.
ReloadNext ==
    \/ \E i \in DOMAIN pageEmailIds : toggleSelect(pageEmailIds[i]) /\ DirectoryFrame
    \/ handleBatchDelete /\ DirectoryFrame
    \/ \E t \in DOMAIN dirTasks : BatchDeleteResolved(t) /\ DirectoryFrame
    \/ handleBatchImport /\ DirectoryFrame
    \/ \E t \in DOMAIN dirTasks : \E response \in ImportResponses :
           ImportResolved(t, response.success_count, response.failed_count)
               /\ DirectoryFrame
    \/ \E i \in DOMAIN pageEmailIds : handleDelete(pageEmailIds[i]) /\ DirectoryFrame
    \/ \E t \in DOMAIN dirTasks : DeleteResolved(t) /\ DirectoryFrame
    \/ \E t \in DOMAIN dirTasks : ServeGetEmails(t) /\ DirectoryFrame
    \/ \E t \in DOMAIN dirTasks : LoadEmailsResolved(t) /\ DirectoryFrame

ReloadSpec == Init /\ [][ReloadNext]_vars

\* No import, delete or reload of the directory is in flight.
DirectoryQuiet == DOMAIN dirTasks = {}

\* C32: once every in-flight operation has completed, the account list in
\* memory is the account list of the store, in whatever order the responses
\* of the reloads in flight resolved: an older snapshot never replaces a
\* newer one.
C32_ListMatchesStoreWhenQuiet ==
    DirectoryQuiet => emails = ListOf(store)

\* --------------------------------------------- loading of the directory

\* An import_emails call or a get_emails call of the component is in flight.
ImportOrReloadPending ==
    \E t \in DOMAIN dirTasks : dirTasks[t].kind \in {"handleBatchImport", "loadEmails"}

\* C33: the loading flag of the account list is true whenever an import call
\* or a reload of the list is in flight, and false only when none is; so it
\* is still true after an import has ended, until the reload that the import
\* started has completed.
C33_LoadingWhilePending ==
    ImportOrReloadPending => loading

\* ================================================================ paging

\* const totalPages = Math.max(1, Math.ceil(filteredEmails.length / pageSize))
\* for the filtered list `list` and the page size `size`.
totalPagesOf(list, size) == max(1, ceilDiv(Len(list), size))

\* paginatedEmails with the slice one row longer.
paginatedEmailsOf_OneMore(list, size, page) ==
    LET start == (page - 1) * size
    IN  slice(list, start, start + size + 1)

\* const pageStart = (currentPage - 1) * pageSize;
\* const paginatedEmails = filteredEmails.slice(pageStart, pageStart + pageSize)
\* for the filtered list `list`, the page size `size` and currentPage = page.
paginatedEmailsOf(list, size, page) ==
    LET start == (page - 1) * size
    IN  slice(list, start, start + size)

\* The filtered lists that are paged: the accounts of every set of ids among
\* 1..MaxListed, as get_emails lists them.
PagedLists == {ListOf(ids) : ids \in SUBSET (1..MaxListed)}

\* The page sizes: every number of rows from 1 to MaxPageRows (the select
\* offers 10, 20 and 50; the slice is the same arithmetic for every size).
PagedSizes == 1..MaxPageRows

\* The renders with currentPage = 1, 2, .., totalPages of one filtered list
\* and page size: the rows each of them shows.
RenderPages ==
    /\ ~pgnPages.done
    /\ pgnPages' = Evaluated(
           [page \in 1..totalPagesOf(pgnFiltered, pgnPageSize) |->
               paginatedEmailsOf(pgnFiltered, pgnPageSize, page)])
    /\ UNCHANGED <<pgnFiltered, pgnPageSize>>

PagingInit ==
    /\ pgnFiltered \in PagedLists
    /\ pgnPageSize \in PagedSizes
    /\ pgnPages = NotEvaluated
    /\ SessionInit
    /\ ClassifierIdle
    /\ WindowIdle
    /\ DirectoryInit
    /\ FilterIdle
    /\ ToastInit
    /\ FolderViewIdle
    /\ DashboardInit
    /\ VersionIdle
    /\ ImportIdle
    /\ ParserIdle

PagingNext == RenderPages /\ PagingFrame

\* Every filtered list and page size, paged through.
PagingSpec == PagingInit /\ [][PagingNext]_vars

\* The pages on which the account with this id is shown.
PagesShowing(id) ==
    {page \in DOMAIN pgnPages.value :
        \E i \in DOMAIN pgnPages.value[page] : pgnPages.value[page][i].id = id}

\* C34: the pages 1..totalPages partition the filtered list: every page holds
\* at most pageSize accounts, every page but the last holds exactly pageSize,
\* every filtered account is on exactly one page, and the pages put one after
\* the other in order are the filtered list.
C34_PagesPartitionList ==
    pgnPages.done =>
        LET pages == pgnPages.value
        IN  /\ Len(pages) = totalPagesOf(pgnFiltered, pgnPageSize)
            /\ \A page \in DOMAIN pages : Len(pages[page]) <= pgnPageSize
            /\ \A page \in DOMAIN pages :
                   page < Len(pages) => Len(pages[page]) = pgnPageSize
            /\ \A i \in DOMAIN pgnFiltered :
                   Cardinality(PagesShowing(pgnFiltered[i].id)) = 1
            /\ Flatten(pages) = pgnFiltered

\* Five accounts at two rows a page: three pages, the last with one account.
C34_Witness ==
    /\ pgnPages.done
    /\ Len(pgnFiltered) = 5
    /\ pgnPageSize = 2
    /\ Len(pgnPages.value) = 3
    /\ Len(pgnPages.value[3]) = 1
    /\ pgnPages.value[3][1].id = 5

\* ------------------------------------------------- shape of the page strip

\* The positions of the strip that hold an ellipsis, and those that hold a
\* page number.
EllipsisAt == {i \in DOMAIN winItems : winItems[i] = Ellipsis}
NumberAt == DOMAIN winItems \ EllipsisAt

\* C35: for 1 <= currentPage <= totalPages the page strip contains page 1,
\* page totalPages and currentPage; its page numbers are strictly increasing
\* and within 1..totalPages; it has at most 7 entries and at most 2 ellipses;
\* every ellipsis stands between two page numbers that are not consecutive,
\* so that it hides at least one page.
C35_PageWindowShape ==
    WindowRendered =>
        /\ \A page \in {1, winTotal, winCurrent} :
               \E i \in NumberAt : winItems[i] = page
        /\ \A i \in NumberAt : winItems[i] \in 1..winTotal
        /\ \A i, j \in NumberAt : i < j => winItems[i] < winItems[j]
        /\ Len(winItems) <= 7
        /\ Cardinality(EllipsisAt) <= 2
        /\ \A i \in EllipsisAt :
               /\ i - 1 \in NumberAt
               /\ i + 1 \in NumberAt
               /\ winItems[i + 1] - winItems[i - 1] >= 2

\* Page 4 of 8: both ellipses are there, the first hides page 2 alone.
C35_Witness ==
    /\ WindowRendered
    /\ winTotal = 8
    /\ winCurrent = 4
    /\ winItems = <<1, Ellipsis, 3, 4, 5, Ellipsis, 8>>

\* ----------------------------------------------- download link of About

\* C36: in the toast of About the download payload is set only while the
\* visible message is the "new version found" message it belongs to: a toast
\* that reports "already up to date", "no release" or "check failed" is never
\* shown together with a download link left by an earlier check.
C36_PayloadBelongsToMessage ==
    updateInfo # "null" => toastMessage = "newVersion"

\* -------------------------------------------- end of a manual update check

\* A continuation of handleCheckUpdate: the settlement of the await it is
\* suspended at.
CheckSettles ==
    \/ CheckVersionResolved
    \/ \E from \in {"awaitVersion", "awaitFetch", "awaitJson"} : CheckFailed(from)
    \/ \E status \in {200, 404, 500} : FetchResolved(status)
    \/ \E cmp \in {-1, 0, 1} : JsonResolved(cmp)

\* The About page alone, where getVersion(), fetch and response.json() settle
\* (resolve or reject) and the browser runs its timers.
FairCheckSpec ==
    /\ Init
    /\ [][AboutNext]_vars
    /\ WF_vars(CheckSettles /\ AboutFrame)
    /\ WF_vars(\E timer \in timers : TimerFires(timer) /\ AboutFrame)

\* The last step ended a check: it is a continuation of handleCheckUpdate
\* that showed a toast.
CheckEnded ==
    /\ aboutOp.op \in {"CheckFailed", "FetchResolved", "JsonResolved"}
    /\ Showed(aboutOp)

\* C37: every manual update check terminates, on every outcome, with checking
\* reset to false and exactly one toast shown for it: no toast is shown while
\* the check goes on, and the step that ends it shows one.  The toast of a
\* newer version is persistent (duration 0, no timer pending); the toast of
\* every other outcome (same or older version, HTTP 404, another HTTP error,
\* a rejected fetch, json or version lookup) has its auto-dismiss timer
\* pending.
C37_CheckTerminatesWithOneToast ==
    /\ checking ~> ~checking
    /\ [][(checking /\ checking') => toastId' = toastId]_vars
    /\ [][(~checking /\ checking') => toastId' = toastId]_vars
    /\ [][(checking /\ ~checking') =>
              /\ toastId' = toastId + 1
              /\ toastMessage' = aboutOp'.message
              /\ toastMessage' \in {"newVersion", "upToDate", "noRelease", "checkFailed"}
              /\ checkPc' = "idle"]_vars
    /\ [](CheckEnded =>
              /\ ~checking
              /\ aboutOp.message = "newVersion" =>
                     /\ aboutOp.op = "JsonResolved"
                     /\ aboutOp.duration = 0
                     /\ timers = {}
                     /\ toastTimerRef = 0
              /\ aboutOp.message # "newVersion" =>
                     /\ aboutOp.duration > 0
                     /\ timers = {Timer(toastId)}
                     /\ toastTimerRef = Timer(toastId).id)

\* A check answered with HTTP 500 has ended with the "check failed" toast,
\* whose timer is pending.
C37_Witness ==
    /\ aboutOp.op = "FetchResolved"
    /\ aboutOp.message = "checkFailed"
    /\ ~checking
    /\ toastId = 1
    /\ timers = {Timer(1)}

\* ========================================================== folder views

\* The folder labels of cached records: none, the empty string, inbox and
\* junk labels as servers write them, a junk word in upper case between
\* spaces, the localized junk label, a label with two junk words, and a label
\* that names neither folder.
CachedLabels ==
    { Undefined,
      Str(<<>>),
      Str(<<"I", "n", "b", "o", "x">>),
      Str(<<"J", "u", "n", "k">>),
      Str(<<" ", "S", "P", "A", "M", " ">>),
      Str(<<CJK_LA, CJK_JI>>),
      Str(<<"j", "u", "n", "k", " ", "s", "p", "a", "m">>),
      Str(<<"X", "x">>) }

\* The lists get_mail_records may hold for account 1: at most MaxCached
\* records, each with its own id.
CachedRecordLists ==
    { [i \in 1..Len(labels) |-> [id |-> 10 + i, email_id |-> 1, folder |-> labels[i]]]
      : labels \in SeqsUpTo(CachedLabels, MaxCached) }

\* The same cached list filtered for the INBOX view and for the JUNK view.
FilterBothViews ==
    /\ ~folderViews.done
    /\ folderViews' = Evaluated(
           [folder \in MailFolder |-> filterMailRecordsByFolder(cachedRecords, folder)])
    /\ UNCHANGED cachedRecords

FolderViewInit ==
    /\ cachedRecords \in CachedRecordLists
    /\ folderViews = NotEvaluated
    /\ SessionInit
    /\ ClassifierIdle
    /\ WindowIdle
    /\ DirectoryInit
    /\ FilterIdle
    /\ ToastInit
    /\ PagingIdle
    /\ DashboardInit
    /\ VersionIdle
    /\ ImportIdle
    /\ ParserIdle

FolderViewNext == FilterBothViews /\ FolderViewFrame

\* Every list of cached records, filtered for both folders.
FolderViewSpec == FolderViewInit /\ [][FolderViewNext]_vars

\* The record is shown in this view.
InView(record, view) == \E i \in DOMAIN view : view[i] = record

\* C38: the INBOX view and the JUNK view of a list of cached records
\* partition it: every record of the list is in exactly one of the two views,
\* the views hold nothing but records of the list, each once, so they are
\* disjoint and together hold every record.
C38_ViewsPartitionRecords ==
    folderViews.done =>
        LET inbox == folderViews.value["INBOX"]
            junk == folderViews.value["JUNK"]
        IN  /\ \A i \in DOMAIN cachedRecords :
                   InView(cachedRecords[i], inbox) # InView(cachedRecords[i], junk)
            /\ \A i \in DOMAIN inbox : ~InView(inbox[i], junk)
            /\ \A i \in DOMAIN inbox : InView(inbox[i], cachedRecords)
            /\ \A i \in DOMAIN junk : InView(junk[i], cachedRecords)
            /\ Len(inbox) + Len(junk) = Len(cachedRecords)

\* A record without a folder label and a record labelled " SPAM ": the first
\* is the INBOX view, the second the JUNK view.
C38_Witness ==
    /\ folderViews.done
    /\ Len(cachedRecords) = 2
    /\ cachedRecords[1].folder = Undefined
    /\ cachedRecords[2].folder = Str(<<" ", "S", "P", "A", "M", " ">>)
    /\ folderViews.value["INBOX"] = <<cachedRecords[1]>>
    /\ folderViews.value["JUNK"] = <<cachedRecords[2]>>

====
